---- MODULE Spec2Model ----
(***************************************************************************)
(* mp3rgain: the MP3 frame scanner, the bit-level global_gain codec, the   *)
(* APEv2 tag store and the undo ledger of src/src/lib.rs, modelled on the  *)
(* bytes of one file.  Byte offsets are 0-based as in the source; a buffer *)
(* is a sequence of values 0..255 and At(d, i) is the source's d[i].       *)
(* A `let` of the source whose value is used more than once is passed as   *)
(* the argument of a local operator, so that it is computed once.          *)
(***************************************************************************)
EXTENDS Integers, Sequences, FiniteSets, Bags, TLC

VARIABLES
    file,     \* the bytes of the file on disk
    orig,     \* the bytes the file had initially
    shape,    \* how the initial file was laid out (never changes)
    log,      \* the operations run so far: arguments, result, file before
    buf,      \* bit-field codec: the buffer
    loc,      \* bit-field codec: the gain location
    val,      \* bit-field codec: the value written
    got,      \* bit-field codec: the value read back
    bpc,      \* bit-field codec: "init", "written" or "read"
    pc,       \* where a call that writes the file twice stands
    mem       \* what a running call holds in memory: the ApeTag for its second
              \* write, or the loudness analyzer of the track being decoded

vars == <<file, orig, shape, log, buf, loc, val, got, bpc, pc, mem>>
fileVars == <<file, orig, shape, log>>
bitVars == <<buf, loc, val, got, bpc>>
stepVars == <<pc, mem>>

(***************************************************************************)
(* Bounds of the model.                                                    *)
(***************************************************************************)
MaxFrames == 2      \* frames in a generated file
MaxGainOps == 2     \* apply_gain calls run on one file
MaxOps == 3         \* undo-ledger operations run on one file
MaxBuf == 2         \* bytes in a bit-field codec buffer
MaxCalls == 2       \* calls of a run in which the process may stop
MaxSets == 2        \* ApeTag::set calls that build a tag
MaxTagOps == 2      \* write_ape_tag / delete_ape_tag calls run on one file

(***************************************************************************)
(* u8 / u32 arithmetic as Rust computes it.                                *)
(***************************************************************************)
Shl8(b, n) == (b * (2 ^ n)) % 256
Shr8(b, n) == b \div (2 ^ n)

RECURSIVE AndBits(_, _, _)
AndBits(a, b, n) ==
    IF n = 0 THEN 0
    ELSE (a % 2) * (b % 2) + 2 * AndBits(a \div 2, b \div 2, n - 1)

RECURSIVE OrBits(_, _, _)
OrBits(a, b, n) ==
    IF n = 0 THEN 0
    ELSE (IF (a % 2) + (b % 2) > 0 THEN 1 ELSE 0)
         + 2 * OrBits(a \div 2, b \div 2, n - 1)

And8(a, b) == AndBits(a, b, 8)
Or8(a, b) == OrBits(a, b, 8)

Min2(a, b) == IF a < b THEN a ELSE b
Max2(a, b) == IF a > b THEN a ELSE b

At(d, i) == d[i + 1]
Slice(d, a, b) == SubSeq(d, a + 1, b)      \* d[a..b]

(***************************************************************************)
(* Constants of the format.                                                *)
(***************************************************************************)
MAX_GAIN == 255
MIN_GAIN == 0
\* 1.5 dB; an f64 number of decibels is counted in quarters of a dB, in which
\* every value of the model is exact
GAIN_STEP_DB == 6

BITRATE_TABLE_MPEG1_L3 ==
    <<0, 32, 40, 48, 56, 64, 80, 96, 112, 128, 160, 192, 224, 256, 320>>
BITRATE_TABLE_MPEG2_L3 ==
    <<0, 8, 16, 24, 32, 40, 48, 56, 64, 80, 96, 112, 128, 144, 160>>
SAMPLE_RATE_TABLE ==
    << <<44100, 48000, 32000>>, <<22050, 24000, 16000>>, <<11025, 12000, 8000>> >>

None == [ok |-> FALSE]

channel_count(mode) == IF mode = "Mono" THEN 1 ELSE 2
granule_count(h) == IF h.version = "Mpeg1" THEN 2 ELSE 1
side_info_offset(h) == IF h.has_crc THEN 6 ELSE 4

(***************************************************************************)
(* parse_header: the argument is the first (at most 4) bytes of the slice  *)
(* data[pos..]; the function reads no byte beyond them.                    *)
(***************************************************************************)
parse_header(header) ==
    IF Len(header) < 4 THEN None
    ELSE IF header[1] # 255 \/ And8(header[2], 224) # 224 THEN None
    ELSE
      LET version_bits == And8(Shr8(header[2], 3), 3)
          layer_bits == And8(Shr8(header[2], 1), 3)
          bitrate_index == And8(Shr8(header[3], 4), 15)
          sr_index == And8(Shr8(header[3], 2), 3)
          channel_bits == And8(Shr8(header[4], 6), 3)
      IN  IF version_bits = 1 THEN None
          ELSE IF layer_bits # 1 THEN None
          ELSE IF bitrate_index = 0 \/ bitrate_index = 15 THEN None
          ELSE IF sr_index = 3 THEN None
          ELSE
            LET version == CASE version_bits = 0 -> "Mpeg25"
                             [] version_bits = 2 -> "Mpeg2"
                             [] OTHER -> "Mpeg1"
                bitrate_kbps ==
                    IF version = "Mpeg1"
                    THEN BITRATE_TABLE_MPEG1_L3[bitrate_index + 1]
                    ELSE BITRATE_TABLE_MPEG2_L3[bitrate_index + 1]
                version_index == CASE version = "Mpeg1" -> 0
                                   [] version = "Mpeg2" -> 1
                                   [] OTHER -> 2
                sample_rate == SAMPLE_RATE_TABLE[version_index + 1][sr_index + 1]
                padding == And8(header[3], 2) # 0
                channel_mode == CASE channel_bits = 0 -> "Stereo"
                                  [] channel_bits = 1 -> "JointStereo"
                                  [] channel_bits = 2 -> "DualChannel"
                                  [] OTHER -> "Mono"
                samples_per_frame == IF version = "Mpeg1" THEN 1152 ELSE 576
                padding_size == IF padding THEN 1 ELSE 0
            IN  [ok |-> TRUE,
                 version |-> version,
                 has_crc |-> And8(header[2], 1) = 0,
                 bitrate_kbps |-> bitrate_kbps,
                 sample_rate |-> sample_rate,
                 padding |-> padding,
                 channel_mode |-> channel_mode,
                 frame_size |->
                     ((samples_per_frame * bitrate_kbps * 125) \div sample_rate)
                     + padding_size]

(***************************************************************************)
(* calculate_gain_locations: granule-major, channel-minor.                 *)
(***************************************************************************)
\* calculate_gain_locations with the loops nested the other way round:
\* channel-major, granule-minor
calculate_gain_locations_channel_major(frame_offset, header) ==
    LET side_info_start == frame_offset + side_info_offset(header)
        num_channels == channel_count(header.channel_mode)
        num_granules == granule_count(header)
        bits_before_granules ==
            CASE header.version = "Mpeg1" /\ num_channels = 1 -> 18
              [] header.version = "Mpeg1" -> 20
              [] num_channels = 1 -> 9
              [] OTHER -> 10
        bits_per_granule_channel == IF header.version = "Mpeg1" THEN 59 ELSE 63
    IN  [k \in 1..(num_granules * num_channels) |->
            LET ch == (k - 1) \div num_granules
                gr == (k - 1) % num_granules
                global_gain_bit ==
                    bits_before_granules
                    + (gr * num_channels + ch) * bits_per_granule_channel + 21
            IN  [byte_offset |-> side_info_start + (global_gain_bit \div 8),
                 bit_offset |-> global_gain_bit % 8]]

calculate_gain_locations(frame_offset, header) ==
    LET side_info_start == frame_offset + side_info_offset(header)
        num_channels == channel_count(header.channel_mode)
        num_granules == granule_count(header)
        bits_before_granules ==
            CASE header.version = "Mpeg1" /\ num_channels = 1 -> 18
              [] header.version = "Mpeg1" -> 20
              [] num_channels = 1 -> 9
              [] OTHER -> 10
        bits_per_granule_channel == IF header.version = "Mpeg1" THEN 59 ELSE 63
    IN  [k \in 1..(num_granules * num_channels) |->
            LET global_gain_bit ==
                    bits_before_granules + (k - 1) * bits_per_granule_channel + 21
            IN  [byte_offset |-> side_info_start + (global_gain_bit \div 8),
                 bit_offset |-> global_gain_bit % 8]]

(***************************************************************************)
(* read_gain_at / write_gain_at: an 8-bit value at a bit-unaligned place.  *)
(***************************************************************************)
read_gain_at(data, l) ==
    LET idx == l.byte_offset
    IN  IF idx >= Len(data) THEN 0
        ELSE IF l.bit_offset = 0 THEN At(data, idx)
        ELSE IF idx + 1 < Len(data)
        THEN LET shift == l.bit_offset
                 high == Shl8(At(data, idx), shift)
                 low == Shr8(At(data, idx + 1), 8 - shift)
             IN  Or8(high, low)
        ELSE Shl8(At(data, idx), l.bit_offset)

\* write_gain_at with the low mask shifted the wrong way
write_gain_at_badmask(data, l, value) ==
    LET idx == l.byte_offset
    IN  IF idx >= Len(data) THEN data
        ELSE IF l.bit_offset = 0 THEN [data EXCEPT ![idx + 1] = value]
        ELSE IF idx + 1 < Len(data)
        THEN LET shift == l.bit_offset
                 mask_high == Shl8(255, 8 - shift)
                 mask_low == Shr8(255, 8 - shift)
             IN  [data EXCEPT
                    ![idx + 1] = Or8(And8(At(data, idx), mask_high),
                                     Shr8(value, shift)),
                    ![idx + 2] = Or8(And8(At(data, idx + 1), mask_low),
                                     Shl8(value, 8 - shift))]
        ELSE LET shift == l.bit_offset
                 mask_high == Shl8(255, 8 - shift)
             IN  [data EXCEPT
                    ![idx + 1] = Or8(And8(At(data, idx), mask_high),
                                     Shr8(value, shift))]

\* write_gain_at as if every location began at a byte
write_gain_at_aligned(data, l, value) ==
    IF l.byte_offset >= Len(data) THEN data
    ELSE [data EXCEPT ![l.byte_offset + 1] = value]

write_gain_at(data, l, value) ==
    LET idx == l.byte_offset
    IN  IF idx >= Len(data) THEN data
        ELSE IF l.bit_offset = 0 THEN [data EXCEPT ![idx + 1] = value]
        ELSE IF idx + 1 < Len(data)
        THEN LET shift == l.bit_offset
                 mask_high == Shl8(255, 8 - shift)
                 mask_low == Shr8(255, shift)
             IN  [data EXCEPT
                    ![idx + 1] = Or8(And8(At(data, idx), mask_high),
                                     Shr8(value, shift)),
                    ![idx + 2] = Or8(And8(At(data, idx + 1), mask_low),
                                     Shl8(value, 8 - shift))]
        ELSE LET shift == l.bit_offset
                 mask_high == Shl8(255, 8 - shift)
             IN  [data EXCEPT
                    ![idx + 1] = Or8(And8(At(data, idx), mask_high),
                                     Shr8(value, shift))]

(***************************************************************************)
(* skip_id3v2: "ID3", 2 version bytes, flags, 4 synchsafe size bytes.      *)
(***************************************************************************)
ID3 == <<73, 68, 51>>

skip_id3v2(data) ==
    IF Len(data) < 10 \/ Slice(data, 0, 3) # ID3 THEN 0
    ELSE 10 + And8(At(data, 6), 127) * (2 ^ 21)
            + And8(At(data, 7), 127) * (2 ^ 14)
            + And8(At(data, 8), 127) * (2 ^ 7)
            + And8(At(data, 9), 127)

(***************************************************************************)
(* iterate_frames: the frames the scanner accepts, in order.  The callback *)
(* of the source receives (pos, header, locations) for each of them.       *)
(***************************************************************************)
\* no sync word is looked for
valid_frame_inside_buffer(data, next_pos) == next_pos <= Len(data)
valid_frame(data, next_pos) ==
    IF next_pos + 2 <= Len(data)
    THEN At(data, next_pos) = 255 /\ And8(At(data, next_pos + 1), 224) = 224
    ELSE next_pos <= Len(data)

\* the candidate at pos passes both tests of the loop body
Accepted(data, pos) ==
    LET passes(header) ==
            header.ok /\ valid_frame(data, pos + header.frame_size)
    IN  passes(parse_header(Slice(data, pos, pos + 4)))

\* Where the loop, entered at pos, next accepts a frame: every rejected
\* candidate does `pos += 1; continue`, so it is the least accepted position
\* from pos on that still satisfies the loop condition; -1 when the loop
\* runs off the buffer without accepting any.  (parse_header rejects every
\* slice whose first byte is not 0xFF; that test is made first.)
NextAccepted(data, pos) ==
    LET least(ps) ==
            IF ps = {} THEN -1 ELSE CHOOSE p \in ps : \A q \in ps : p <= q
    IN  least({p \in pos..(Len(data) - 4) :
                  At(data, p) = 255 /\ Accepted(data, p)})

RECURSIVE ScanFrames(_, _)
ScanFrames(data, pos) ==
    LET callback(p, header) ==
            <<[pos |-> p, header |-> header,
               locations |-> calculate_gain_locations(p, header)]>>
            \o ScanFrames(data, p + header.frame_size)
        from(p) ==
            IF p = -1 THEN <<>>
            ELSE callback(p, parse_header(Slice(data, p, p + 4)))
    IN  from(NextAccepted(data, pos))

iterate_frames(data) == ScanFrames(data, skip_id3v2(data))

(***************************************************************************)
(* analyze: gain statistics of the accepted frames; never writes.          *)
(***************************************************************************)
RECURSIVE FrameGains(_, _, _)
FrameGains(data, frames, i) ==
    IF i > Len(frames) THEN <<>>
    ELSE [k \in 1..Len(frames[i].locations) |->
             read_gain_at(data, frames[i].locations[k])]
         \o FrameGains(data, frames, i + 1)

\* max_gain overwritten by every gain read
RECURSIVE FoldGains_max_of_last(_, _, _)
FoldGains_max_of_last(gains, i, acc) ==
    IF i > Len(gains) THEN acc
    ELSE FoldGains_max_of_last(gains, i + 1,
            [min_gain |-> Min2(acc.min_gain, gains[i]),
             max_gain |-> gains[i],
             total_gain |-> acc.total_gain + gains[i],
             gain_count |-> acc.gain_count + 1])

RECURSIVE FoldGains(_, _, _)
FoldGains(gains, i, acc) ==
    IF i > Len(gains) THEN acc
    ELSE FoldGains(gains, i + 1,
            [min_gain |-> Min2(acc.min_gain, gains[i]),
             max_gain |-> Max2(acc.max_gain, gains[i]),
             total_gain |-> acc.total_gain + gains[i],
             gain_count |-> acc.gain_count + 1])

analyze(data) ==
    LET report(frames, st) ==
            IF Len(frames) = 0
            THEN [ok |-> FALSE, err |-> "No valid MP3 frames found"]
            ELSE [ok |-> TRUE,
                  frame_count |-> Len(frames),
                  mpeg_version |-> frames[1].header.version,
                  channel_mode |-> frames[1].header.channel_mode,
                  min_gain |-> st.min_gain,
                  max_gain |-> st.max_gain,
                  total_gain |-> st.total_gain,
                  gain_count |-> st.gain_count,
                  \* total_gain as f64 / gain_count as f64, kept as the fraction
                  avg_gain |-> [num |-> st.total_gain, den |-> st.gain_count],
                  headroom_steps |-> MAX_GAIN - st.max_gain,
                  headroom_db |-> (MAX_GAIN - st.max_gain) * GAIN_STEP_DB]
        scanned(frames) ==
            report(frames,
                   FoldGains(FrameGains(data, frames, 1), 1,
                      [min_gain |-> 255, max_gain |-> 0,
                       total_gain |-> 0, gain_count |-> 0]))
    IN  scanned(iterate_frames(data))

(***************************************************************************)
(* apply_gain: the scan loop of the source with the saturating rewrite of  *)
(* every location of every accepted frame.  The result carries the buffer  *)
(* that fs::write stores; wrote = FALSE is the early return for 0 steps.   *)
(***************************************************************************)
\* wrapping instead of saturating addition
wrapping_add(a, b) == (a + b) % 256

saturating_add(a, b) == Min2(a + b, 255)
saturating_sub(a, b) == Max2(a - b, 0)

\* new_gain with the negation of a negative step count forgotten
new_gain_unnegated(current_gain, gain_steps) ==
    IF gain_steps > 0
    THEN saturating_add(current_gain, Min2(gain_steps, 255))
    ELSE saturating_sub(current_gain, Min2(gain_steps, 255))

new_gain(current_gain, gain_steps) ==
    IF gain_steps > 0
    THEN saturating_add(current_gain, Min2(gain_steps, 255))
    ELSE saturating_sub(current_gain, Min2(-gain_steps, 255))

\* WriteLocations stopping one location early
RECURSIVE WriteLocations_short(_, _, _, _)
WriteLocations_short(data, locations, k, gain_steps) ==
    IF k >= Len(locations) THEN data
    ELSE WriteLocations_short(
            write_gain_at(data, locations[k],
                new_gain(read_gain_at(data, locations[k]), gain_steps)),
            locations, k + 1, gain_steps)

RECURSIVE WriteLocations(_, _, _, _)
WriteLocations(data, locations, k, gain_steps) ==
    IF k > Len(locations) THEN data
    ELSE WriteLocations(
            write_gain_at(data, locations[k],
                new_gain(read_gain_at(data, locations[k]), gain_steps)),
            locations, k + 1, gain_steps)

\* the loop of apply_gain: the same tests as iterate_frames, made on the
\* buffer as rewritten so far
RECURSIVE ApplyLoop(_, _, _, _)
ApplyLoop(data, pos, gain_steps, modified_frames) ==
    LET rewrite(p, header) ==
            ApplyLoop(
               WriteLocations(data, calculate_gain_locations(p, header),
                              1, gain_steps),
               p + header.frame_size, gain_steps, modified_frames + 1)
        from(p) ==
            IF p = -1
            THEN [data |-> data, modified_frames |-> modified_frames]
            ELSE rewrite(p, parse_header(Slice(data, p, p + 4)))
    IN  from(NextAccepted(data, pos))

\* apply_gain without the early return for 0 steps
apply_gain_always_writes(data, gain_steps) ==
    LET written(r) ==
            [ok |-> TRUE, val |-> r.modified_frames, data |-> r.data,
             wrote |-> TRUE]
    IN  written(ApplyLoop(data, skip_id3v2(data), gain_steps, 0))

apply_gain(data, gain_steps) ==
    IF gain_steps = 0
    THEN [ok |-> TRUE, val |-> 0, data |-> data, wrote |-> FALSE]
    ELSE LET written(r) ==
                 [ok |-> TRUE, val |-> r.modified_frames, data |-> r.data,
                  wrote |-> TRUE]
         IN  written(ApplyLoop(data, skip_id3v2(data), gain_steps, 0))

(***************************************************************************)
(* APEv2 tag store.  Strings are sequences of byte values (ASCII here, on  *)
(* which from_utf8_lossy and as_bytes are the identity); an ApeTag is the  *)
(* sequence of its items.                                                  *)
(***************************************************************************)
APE_PREAMBLE == <<65, 80, 69, 84, 65, 71, 69, 88>>            \* "APETAGEX"
APE_VERSION == 2000
\* u32 flag words are kept as their 4 little-endian bytes (1 << 31, 1 << 29)
APE_FLAG_HEADER_PRESENT == <<0, 0, 0, 128>>
APE_FLAG_IS_HEADER == <<0, 0, 0, 32>>
TAG_MP3GAIN_UNDO ==                                           \* "MP3GAIN_UNDO"
    <<77, 80, 51, 71, 65, 73, 78, 95, 85, 78, 68, 79>>
TAG_MP3GAIN_MINMAX ==                                         \* "MP3GAIN_MINMAX"
    <<77, 80, 51, 71, 65, 73, 78, 95, 77, 73, 78, 77, 65, 88>>
TAG == <<84, 65, 71>>                                         \* "TAG"

to_uppercase(s) ==
    [i \in 1..Len(s) |-> IF s[i] \in 97..122 THEN s[i] - 32 ELSE s[i]]

RECURSIVE FindItem(_, _, _)
FindItem(items, key_upper, i) ==
    IF i > Len(items) THEN 0
    ELSE IF to_uppercase(items[i].key) = key_upper THEN i
    ELSE FindItem(items, key_upper, i + 1)

tag_get(tag, key) ==
    LET i == FindItem(tag, to_uppercase(key), 1)
    IN  IF i = 0 THEN None ELSE [ok |-> TRUE, value |-> tag[i].value]

tag_set(tag, key, value) ==
    LET i == FindItem(tag, to_uppercase(key), 1)
    IN  IF i # 0 THEN [tag EXCEPT ![i].value = value]
        ELSE Append(tag, [key |-> to_uppercase(key), value |-> value])

\* remove comparing the stored key as it is, not upper-cased
tag_remove_case_sensitive(tag, key) ==
    LET keep(item) == item.key # to_uppercase(key)
    IN  SelectSeq(tag, keep)

tag_remove(tag, key) ==
    LET keep(item) == to_uppercase(item.key) # to_uppercase(key)
    IN  SelectSeq(tag, keep)

is_empty(tag) == Len(tag) = 0

(***************************************************************************)
(* Decimal formatting and parsing: format!("{:+04}"), format!("{}") and    *)
(* str::trim / str::parse::<i32>.                                          *)
(***************************************************************************)
RECURSIVE Digits(_)
Digits(n) ==
    IF n < 10 THEN <<48 + n>> ELSE Append(Digits(n \div 10), 48 + (n % 10))

RECURSIVE PadZero(_, _)
PadZero(ds, w) == IF Len(ds) >= w THEN ds ELSE PadZero(<<48>> \o ds, w)

format_signed_04(n) ==
    IF n >= 0 THEN <<43>> \o PadZero(Digits(n), 3)
    ELSE <<45>> \o PadZero(Digits(-n), 3)

Whitespace == {9, 10, 11, 12, 13, 32}

RECURSIVE trim(_)
trim(s) ==
    IF Len(s) = 0 THEN s
    ELSE IF s[1] \in Whitespace THEN trim(Tail(s))
    ELSE IF s[Len(s)] \in Whitespace THEN trim(SubSeq(s, 1, Len(s) - 1))
    ELSE s

RECURSIVE DigitsValue(_, _, _)
DigitsValue(s, i, acc) ==
    IF i > Len(s) THEN acc ELSE DigitsValue(s, i + 1, acc * 10 + (s[i] - 48))

parse_i32(s) ==
    LET signed == Len(s) > 0 /\ s[1] \in {43, 45}
        ds == IF signed THEN Tail(s) ELSE s
        mag == DigitsValue(ds, 1, 0)
        v == IF signed /\ s[1] = 45 THEN -mag ELSE mag
    IN  IF Len(ds) = 0 \/ \E i \in 1..Len(ds) : ds[i] \notin 48..57 THEN None
        ELSE IF v < -2147483647 - 1 \/ v > 2147483647 THEN None
        ELSE [ok |-> TRUE, value |-> v]

RECURSIVE FirstField(_)
FirstField(v) ==
    IF Len(v) = 0 \/ v[1] = 44 THEN <<>> ELSE <<v[1]>> \o FirstField(Tail(v))

get_undo_gain(tag) ==
    LET v == tag_get(tag, TAG_MP3GAIN_UNDO)
    IN  IF ~v.ok THEN None ELSE parse_i32(trim(FirstField(v.value)))

set_undo_gain(tag, left_gain, right_gain, wrap) ==
    tag_set(tag, TAG_MP3GAIN_UNDO,
            format_signed_04(left_gain) \o <<44>>
            \o format_signed_04(right_gain) \o <<44>>
            \o <<IF wrap THEN 87 ELSE 78>>)

set_minmax(tag, min, max) ==
    tag_set(tag, TAG_MP3GAIN_MINMAX, Digits(min) \o <<44>> \o Digits(max))

(***************************************************************************)
(* The tag on disk: footer lookup, parse, serialize, removal.              *)
(***************************************************************************)
read_u32_le(data, off) ==
    At(data, off) + 256 * At(data, off + 1) + 65536 * At(data, off + 2)
    + 16777216 * At(data, off + 3)

u32_to_le_bytes(n) ==
    <<n % 256, (n \div 256) % 256, (n \div 65536) % 256, (n \div 16777216) % 256>>

read_flags_le(data, off) == Slice(data, off, off + 4)
And32(a, b) == [i \in 1..4 |-> And8(a[i], b[i])]
Or32(a, b) == [i \in 1..4 |-> Or8(a[i], b[i])]

\* -1 stands for Option::None
find_ape_footer(data) ==
    IF Len(data) < 32 THEN -1
    ELSE IF Slice(data, Len(data) - 32, Len(data) - 24) = APE_PREAMBLE
    THEN Len(data) - 32
    ELSE IF Len(data) >= 160
            /\ Slice(data, Len(data) - 160, Len(data) - 152) = APE_PREAMBLE
            /\ Slice(data, Len(data) - 128, Len(data) - 125) = TAG
    THEN Len(data) - 160
    ELSE -1

RECURSIVE KeyEnd(_, _, _)
KeyEnd(data, pos, footer_start) ==
    IF pos < footer_start /\ At(data, pos) # 0
    THEN KeyEnd(data, pos + 1, footer_start)
    ELSE pos

RECURSIVE ParseItems(_, _, _, _, _)
ParseItems(data, pos, footer_start, remaining, items) ==
    IF remaining = 0 THEN items
    ELSE IF pos + 8 > footer_start THEN items
    ELSE
      LET value_size == read_u32_le(data, pos)
          key_start == pos + 8
          key_end == KeyEnd(data, key_start, footer_start)
          value_start == key_end + 1
      IN  IF key_end >= footer_start THEN items
          ELSE IF value_start + value_size > footer_start THEN items
          ELSE ParseItems(data, value_start + value_size, footer_start,
                  remaining - 1,
                  Append(items,
                     [key |-> Slice(data, key_start, key_end),
                      value |-> Slice(data, value_start,
                                      value_start + value_size)]))

read_ape_tag(data) ==
    LET footer_start == find_ape_footer(data)
    IN  IF footer_start = -1 THEN None
        ELSE IF read_u32_le(data, footer_start + 8) # APE_VERSION THEN None
        ELSE
          LET tag_size == read_u32_le(data, footer_start + 12)
              item_count == read_u32_le(data, footer_start + 16)
          IN  IF footer_start + 32 < tag_size THEN None
              ELSE [ok |-> TRUE,
                    tag |-> ParseItems(data, footer_start + 32 - tag_size,
                                       footer_start, item_count, <<>>)]

\* SerializeItems without the null terminator of the key
RECURSIVE SerializeItems_unterminated(_, _)
SerializeItems_unterminated(tag, i) ==
    IF i > Len(tag) THEN <<>>
    ELSE u32_to_le_bytes(Len(tag[i].value)) \o u32_to_le_bytes(0)
         \o tag[i].key \o tag[i].value
         \o SerializeItems_unterminated(tag, i + 1)

RECURSIVE SerializeItems(_, _)
SerializeItems(tag, i) ==
    IF i > Len(tag) THEN <<>>
    ELSE u32_to_le_bytes(Len(tag[i].value)) \o u32_to_le_bytes(0)
         \o tag[i].key \o <<0>> \o tag[i].value
         \o SerializeItems(tag, i + 1)

Reserved8 == <<0, 0, 0, 0, 0, 0, 0, 0>>

serialize_ape_tag(tag) ==
    IF is_empty(tag) THEN <<>>
    ELSE
      LET items_data == SerializeItems(tag, 1)
          tag_size == Len(items_data) + 32
          item_count == Len(tag)
      IN  APE_PREAMBLE \o u32_to_le_bytes(APE_VERSION)
          \o u32_to_le_bytes(tag_size) \o u32_to_le_bytes(item_count)
          \o Or32(APE_FLAG_HEADER_PRESENT, APE_FLAG_IS_HEADER)
          \o Reserved8
          \o items_data
          \o APE_PREAMBLE \o u32_to_le_bytes(APE_VERSION)
          \o u32_to_le_bytes(tag_size) \o u32_to_le_bytes(item_count)
          \o APE_FLAG_HEADER_PRESENT
          \o Reserved8

\* remove_ape_tag taking the tag to be tag_size bytes whatever the flags say
remove_ape_tag_fixed32(data) ==
    LET footer_start == find_ape_footer(data)
    IN  IF footer_start = -1 THEN data
        ELSE
          LET tag_size == read_u32_le(data, footer_start + 12)
              audio_end == IF footer_start + 32 >= tag_size
                           THEN footer_start + 32 - tag_size
                           ELSE 0
              id3v1_start == footer_start + 32
              has_id3v1 == Len(data) > id3v1_start + 3
                           /\ Slice(data, id3v1_start, id3v1_start + 3) = TAG
          IN  IF has_id3v1
              THEN Slice(data, 0, audio_end) \o Slice(data, id3v1_start, Len(data))
              ELSE Slice(data, 0, audio_end)

remove_ape_tag(data) ==
    LET footer_start == find_ape_footer(data)
    IN  IF footer_start = -1 THEN data
        ELSE
          LET tag_size == read_u32_le(data, footer_start + 12)
              flags == read_flags_le(data, footer_start + 20)
              has_header == And32(flags, APE_FLAG_HEADER_PRESENT) # <<0, 0, 0, 0>>
              header_size == IF has_header THEN 32 ELSE 0
              audio_end == IF footer_start + 32 >= tag_size + header_size
                           THEN footer_start + 32 - tag_size - header_size
                           ELSE 0
              id3v1_start == footer_start + 32
              has_id3v1 == Len(data) > id3v1_start + 3
                           /\ Slice(data, id3v1_start, id3v1_start + 3) = TAG
          IN  IF has_id3v1
              THEN Slice(data, 0, audio_end) \o Slice(data, id3v1_start, Len(data))
              ELSE Slice(data, 0, audio_end)

\* write_ape_tag putting the tag at the end of the file in every case
write_ape_tag_appends(data, tag) ==
    remove_ape_tag(data) \o serialize_ape_tag(tag)

\* the bytes write_ape_tag stores in the file
write_ape_tag(data, tag) ==
    LET insert(audio_data, n, tag_data) ==
            IF n >= 128 /\ Slice(audio_data, n - 128, n - 125) = TAG
            THEN Slice(audio_data, 0, n - 128) \o tag_data
                 \o Slice(audio_data, n - 128, n)
            ELSE audio_data \o tag_data
        stripped(audio_data) ==
            insert(audio_data, Len(audio_data), serialize_ape_tag(tag))
    IN  stripped(remove_ape_tag(data))

\* the bytes delete_ape_tag stores in the file
delete_ape_tag(data) == remove_ape_tag(data)

(***************************************************************************)
(* Undo ledger.  Each operation maps the bytes of the file to its result:  *)
(* ok/val/err as the Result returned, data as the bytes left on disk and   *)
(* nwrites as the number of fs::write calls it made.                       *)
(***************************************************************************)
Ok(v, data, n) == [ok |-> TRUE, val |-> v, err |-> "", data |-> data, nwrites |-> n]
Err(e, data) == [ok |-> FALSE, val |-> 0, err |-> e, data |-> data, nwrites |-> 0]

apply_gain_file(data, gain_steps) ==
    LET result(r) == Ok(r.val, r.data, IF r.wrote THEN 1 ELSE 0)
    IN  result(apply_gain(data, gain_steps))

\* the stored undo value replaced instead of accumulated
new_undo_last_only(existing_undo, gain_steps) == gain_steps

\* min/max stored on every call
store_minmax_every_call(tag, analysis) ==
    set_minmax(tag, analysis.min_gain, analysis.max_gain)

\* let new_undo = existing_undo + gain_steps
new_undo(existing_undo, gain_steps) == existing_undo + gain_steps

\* store original min/max if not already stored
store_minmax(tag, analysis) ==
    IF ~tag_get(tag, TAG_MP3GAIN_MINMAX).ok
    THEN set_minmax(tag, analysis.min_gain, analysis.max_gain)
    ELSE tag

apply_gain_with_undo(data, gain_steps) ==
    IF gain_steps = 0 THEN Ok(0, data, 0)
    ELSE
      LET unwrap_or_new(rd) == IF rd.ok THEN rd.tag ELSE <<>>
          unwrap_or_0(eu) == IF eu.ok THEN eu.value ELSE 0
          applied(frames, tag) ==
              Ok(frames.val, write_ape_tag(frames.data, tag), 2)
          store(tag, nu, analysis) ==
              applied(apply_gain(data, gain_steps),
                      store_minmax(set_undo_gain(tag, nu, nu, FALSE), analysis))
          with_tag(tag, analysis) ==
              store(tag,
                    new_undo(unwrap_or_0(get_undo_gain(tag)), gain_steps),
                    analysis)
          analysed(analysis) ==
              IF ~analysis.ok THEN Err(analysis.err, data)
              ELSE with_tag(unwrap_or_new(read_ape_tag(data)), analysis)
      IN  analysed(analyze(data))

\* undo_gain without the no-op return for a stored value of 0
undo_gain_no_zero_return(data) ==
    LET applied(frames, new_tag) ==
            Ok(frames.val,
               IF is_empty(new_tag) THEN delete_ape_tag(frames.data)
               ELSE write_ape_tag(frames.data, new_tag),
               2)
        with_undo(tag, ug) ==
            IF ~ug.ok THEN Err("No MP3GAIN_UNDO tag found - cannot undo", data)
            ELSE applied(apply_gain(data, -ug.value),
                         tag_remove(tag_remove(tag, TAG_MP3GAIN_UNDO),
                                    TAG_MP3GAIN_MINMAX))
        with_tag(rd) ==
            IF ~rd.ok THEN Err("No APE tag found - cannot undo", data)
            ELSE with_undo(rd.tag, get_undo_gain(rd.tag))
    IN  with_tag(read_ape_tag(data))

undo_gain(data) ==
    LET applied(frames, new_tag) ==
            Ok(frames.val,
               IF is_empty(new_tag) THEN delete_ape_tag(frames.data)
               ELSE write_ape_tag(frames.data, new_tag),
               2)
        with_undo(tag, ug) ==
            IF ~ug.ok THEN Err("No MP3GAIN_UNDO tag found - cannot undo", data)
            ELSE IF ug.value = 0 THEN Ok(0, data, 0)
            ELSE applied(apply_gain(data, -ug.value),
                         tag_remove(tag_remove(tag, TAG_MP3GAIN_UNDO),
                                    TAG_MP3GAIN_MINMAX))
        with_tag(rd) ==
            IF ~rd.ok THEN Err("No APE tag found - cannot undo", data)
            ELSE with_undo(rd.tag, get_undo_gain(rd.tag))
    IN  with_tag(read_ape_tag(data))

(***************************************************************************)
(* Files the operations run on: an optional ID3v2 header, 1 or MaxFrames   *)
(* Layer III frames of one kind, an optional APEv2 tag and an optional     *)
(* 128-byte ID3v1 tag.                                                     *)
(***************************************************************************)
Fill(n, b) == [i \in 1..n |-> b]

\* MPEG2 stereo, no CRC, 8 kbps, 24 kHz (24 bytes);
\* MPEG2 mono, CRC, 8 kbps, 24 kHz (24 bytes);
\* MPEG1 joint stereo, no CRC, 32 kbps, 48 kHz (96 bytes)
Kinds == {"m2s", "m2m", "m1j"}
KindHeaderBytes(kind) ==
    CASE kind = "m2s" -> <<255, 243, 20, 0>>
      [] kind = "m2m" -> <<255, 242, 20, 192>>
      [] OTHER -> <<255, 251, 20, 64>>
KindHeader(kind) == parse_header(KindHeaderBytes(kind))
KindFill(kind) == IF kind = "m2m" THEN 255 ELSE 0

Palettes == { <<10, 20, 15>>, <<0, 255, 128>> }
Trailers == {"none", "id3v1", "ape", "foreign+id3v1"}

Id3v2Bytes == <<73, 68, 51, 3, 0, 0, 0, 0, 0, 3, 0, 0, 0>>
Id3v1Bytes == TAG \o Fill(125, 0)

OtherItem == [key |-> <<65, 82>>, value |-> <<120>>]          \* "AR" = "x"
\* a tag as another tool leaves it: footer only, lower-case keys
ForeignItems ==
    << [key |-> <<109, 112, 51, 103, 97, 105, 110, 95, 117, 110, 100, 111>>,
        value |-> <<43, 48, 48, 50, 44, 43, 48, 48, 50, 44, 78>>],
       OtherItem >>
ForeignTagBytes ==
    LET items_data == SerializeItems(ForeignItems, 1)
    IN  items_data \o APE_PREAMBLE \o u32_to_le_bytes(APE_VERSION)
        \o u32_to_le_bytes(Len(items_data) + 32)
        \o u32_to_le_bytes(Len(ForeignItems))
        \o u32_to_le_bytes(0) \o Reserved8

Shapes ==
    [id3v2 : BOOLEAN, kind : Kinds, n : {1, MaxFrames},
     palette : Palettes, trailer : Trailers]

FrameSize(sh) == KindHeader(sh.kind).frame_size
AudioStart(sh) == IF sh.id3v2 THEN Len(Id3v2Bytes) ELSE 0
FramePos(sh, k) == AudioStart(sh) + (k - 1) * FrameSize(sh)
FieldsPerFrame(sh) ==
    Len(calculate_gain_locations(0, KindHeader(sh.kind)))
NFields(sh) == sh.n * FieldsPerFrame(sh)
\* the j-th global_gain field of the file, frames in order
FieldLoc(sh, j) ==
    LET k == ((j - 1) \div FieldsPerFrame(sh)) + 1
        c == ((j - 1) % FieldsPerFrame(sh)) + 1
    IN  calculate_gain_locations(FramePos(sh, k), KindHeader(sh.kind))[c]
FieldInit(sh, j) == sh.palette[((j - 1) % Len(sh.palette)) + 1]

RECURSIVE PutFields(_, _, _)
PutFields(data, sh, j) ==
    IF j > NFields(sh) THEN data
    ELSE PutFields(write_gain_at(data, FieldLoc(sh, j), FieldInit(sh, j)),
                   sh, j + 1)

RECURSIVE BlankFrames(_, _)
BlankFrames(sh, k) ==
    IF k > sh.n THEN <<>>
    ELSE KindHeaderBytes(sh.kind) \o Fill(FrameSize(sh) - 4, KindFill(sh.kind))
         \o BlankFrames(sh, k + 1)

MakeFile(sh) ==
    PutFields((IF sh.id3v2 THEN Id3v2Bytes ELSE <<>>) \o BlankFrames(sh, 1),
              sh, 1)
    \o (CASE sh.trailer = "ape" -> serialize_ape_tag(<<OtherItem>>)
          [] sh.trailer = "foreign+id3v1" -> ForeignTagBytes
          [] OTHER -> <<>>)
    \o (IF sh.trailer \in {"id3v1", "foreign+id3v1"}
        THEN Id3v1Bytes ELSE <<>>)

\* the values of all global_gain fields of the frames the file was built of
Fields(data, sh) == [j \in 1..NFields(sh) |-> read_gain_at(data, FieldLoc(sh, j))]

\* some field an apply_gain(data, s) rewrites would leave 0..255
Saturates(data, s) ==
    LET leaves(gains) ==
            \E i \in 1..Len(gains) : gains[i] + s < 0 \/ gains[i] + s > 255
    IN  leaves(FrameGains(data, iterate_frames(data), 1))

(***************************************************************************)
(* The state machine: one action per library call on the file.             *)
(***************************************************************************)
\* the step count an operation hands to apply_gain (0: it makes no such call)
StoredUndo(data) ==
    LET unwrap_or_0(ug) == IF ug.ok THEN ug.value ELSE 0
        stored(rd) == unwrap_or_0(IF rd.ok THEN get_undo_gain(rd.tag) ELSE None)
    IN  stored(read_ape_tag(data))
Applied(op, steps, data, r) ==
    IF ~r.ok THEN 0
    ELSE IF op = "undo_gain" THEN -StoredUndo(data)
    ELSE steps

\* steps: the argument; applied: the step count handed to apply_gain;
\* sat: some rewritten field was clamped; before: the bytes of the file
\* before the call
Entry(op, steps, r) ==
    LET record(applied) ==
            [op |-> op, steps |-> steps, ok |-> r.ok, val |-> r.val,
             err |-> r.err, nwrites |-> r.nwrites, before |-> file,
             applied |-> applied,
             sat |-> applied # 0 /\ Saturates(file, applied)]
    IN  record(Applied(op, steps, file, r))

NoBits == /\ buf = <<>> /\ loc = [byte_offset |-> 0, bit_offset |-> 0]
          /\ val = 0 /\ got = 0 /\ bpc = "off"

InitFile ==
    /\ shape \in Shapes
    /\ orig = MakeFile(shape)
    /\ file = orig
    /\ log = <<>>
    /\ NoBits
    /\ pc = "idle" /\ mem = <<>>

GainSteps == {0, 2, -2, 300}
UndoSteps == {2, -2}

ApplyGain(s) ==
    /\ Len(log) < MaxGainOps
    /\ \E r \in {apply_gain_file(file, s)} :
           /\ file' = r.data
           /\ log' = Append(log, Entry("apply_gain", s, r))
    /\ UNCHANGED <<orig, shape, bitVars, stepVars>>

ApplyGainWithUndo(s) ==
    /\ Len(log) < MaxOps
    /\ \E r \in {apply_gain_with_undo(file, s)} :
           /\ file' = r.data
           /\ log' = Append(log, Entry("apply_gain_with_undo", s, r))
    /\ UNCHANGED <<orig, shape, bitVars, stepVars>>

UndoGain ==
    /\ Len(log) < MaxOps
    /\ \E r \in {undo_gain(file)} :
           /\ file' = r.data
           /\ log' = Append(log, Entry("undo_gain", 0, r))
    /\ UNCHANGED <<orig, shape, bitVars, stepVars>>

Init == InitFile
Next == \E s \in GainSteps : ApplyGain(s)
Spec == Init /\ [][Next]_vars

NextUndo ==
    \/ \E s \in UndoSteps : ApplyGainWithUndo(s)
    \/ UndoGain
    \/ ApplyGain(2)
SpecUndo == Init /\ [][NextUndo]_vars

(***************************************************************************)
(* The bit-field codec on its own: write a value at a location inside a    *)
(* buffer, then read the location back.                                    *)
(***************************************************************************)
ByteVals == {0, 255}
RECURSIVE Buffers(_)
Buffers(n) ==
    IF n = 0 THEN {<<>>}
    ELSE {Append(b, x) : b \in Buffers(n - 1), x \in ByteVals}

InitBits ==
    /\ buf \in UNION {Buffers(n) : n \in 1..MaxBuf}
    /\ loc \in [byte_offset : 0..(MaxBuf - 1), bit_offset : 0..7]
    /\ loc.byte_offset < Len(buf)
    /\ val \in 0..255
    /\ got = 0
    /\ bpc = "init"
    /\ file = <<>> /\ orig = <<>> /\ log = <<>>
    /\ shape = [id3v2 |-> FALSE, kind |-> "m2s", n |-> 1,
                palette |-> <<0>>, trailer |-> "none"]
    /\ pc = "idle" /\ mem = <<>>

WriteGain ==
    /\ bpc = "init"
    /\ buf' = write_gain_at(buf, loc, val)
    /\ bpc' = "written"
    /\ UNCHANGED <<loc, val, got, fileVars, stepVars>>

ReadGain ==
    /\ bpc = "written"
    /\ got' = read_gain_at(buf, loc)
    /\ bpc' = "read"
    /\ UNCHANGED <<buf, loc, val, fileVars, stepVars>>

NextBits == WriteGain \/ ReadGain
SpecBits == InitBits /\ [][NextBits]_vars

(***************************************************************************)
(* The two writes of apply_gain_with_undo and of undo_gain, one step each: *)
(* apply_gain stores the rewritten frames with fs::write, then             *)
(* write_ape_tag / delete_ape_tag reads the file again and stores the tag  *)
(* change with a second fs::write.  The process may stop between the two.  *)
(* A call that fails or returns early makes no write and is one step.      *)
(***************************************************************************)
\* apply_gain_with_undo up to and including `apply_gain(file_path, gain_steps)?`
GainWriteOfApply(s) ==
    /\ pc = "idle" /\ Len(log) < MaxCalls
    /\ \E r \in {apply_gain_with_undo(file, s)} :
         \E rd \in {read_ape_tag(file)} :
          \E tag \in {IF rd.ok THEN rd.tag ELSE <<>>} :
           \E eu \in {get_undo_gain(tag)} :
            \E nu \in {new_undo(IF eu.ok THEN eu.value ELSE 0, s)} :
              /\ log' = Append(log, Entry("apply_gain_with_undo", s, r))
              /\ IF r.nwrites = 0
                 THEN /\ file' = r.data
                      /\ UNCHANGED stepVars
                 ELSE /\ file' = apply_gain(file, s).data
                      /\ mem' = store_minmax(set_undo_gain(tag, nu, nu, FALSE),
                                             analyze(file))
                      /\ pc' = "apply_gain_with_undo: gain written"
    /\ UNCHANGED <<orig, shape, bitVars>>

\* undo_gain up to and including `apply_gain(file_path, -undo_gain)?`
GainWriteOfUndo ==
    /\ pc = "idle" /\ Len(log) < MaxCalls
    /\ \E r \in {undo_gain(file)} :
         \E rd \in {read_ape_tag(file)} :
              /\ log' = Append(log, Entry("undo_gain", 0, r))
              /\ IF r.nwrites = 0
                 THEN /\ file' = r.data
                      /\ UNCHANGED stepVars
                 ELSE /\ file' = apply_gain(file, -get_undo_gain(rd.tag).value).data
                      /\ mem' = tag_remove(tag_remove(rd.tag, TAG_MP3GAIN_UNDO),
                                           TAG_MP3GAIN_MINMAX)
                      /\ pc' = "undo_gain: gain written"
    /\ UNCHANGED <<orig, shape, bitVars>>

\* the second write: write_ape_tag, or delete_ape_tag for an emptied tag
TagWrite ==
    /\ pc \in {"apply_gain_with_undo: gain written", "undo_gain: gain written"}
    /\ file' = IF pc = "undo_gain: gain written" /\ is_empty(mem)
               THEN delete_ape_tag(file)
               ELSE write_ape_tag(file, mem)
    /\ pc' = "idle" /\ mem' = <<>>
    /\ UNCHANGED <<orig, shape, log, bitVars>>

\* the process stops (or the second write fails) between the two writes
Stop ==
    /\ pc \in {"apply_gain_with_undo: gain written", "undo_gain: gain written"}
    /\ pc' = "stopped"
    /\ UNCHANGED <<fileVars, mem, bitVars>>

NextSteps ==
    \/ \E s \in UndoSteps : GainWriteOfApply(s)
    \/ GainWriteOfUndo
    \/ TagWrite
    \/ Stop
SpecSteps == Init /\ [][NextSteps]_vars

(***************************************************************************)
(* apply_gain_channel(file, channel, steps): the rewrite of apply_gain     *)
(* restricted to the locations of one channel, failing on a mono file.     *)
(* Locations come granule-major, channel-minor, so the channel of the k-th *)
(* location of a frame is (k - 1) % channels.                              *)
(***************************************************************************)
RECURSIVE ApplyChannelLoop(_, _, _, _, _)
ApplyChannelLoop(data, pos, ch, gain_steps, modified_frames) ==
    LET of_channel(locations, num_channels) ==
            [g \in 1..(Len(locations) \div num_channels) |->
                locations[(g - 1) * num_channels + ch + 1]]
        rewrite(p, header) ==
            IF header.channel_mode = "Mono"
            THEN [mono |-> TRUE, data |-> data, modified_frames |-> 0]
            ELSE ApplyChannelLoop(
                    WriteLocations(data,
                       of_channel(calculate_gain_locations(p, header),
                                  channel_count(header.channel_mode)),
                       1, gain_steps),
                    p + header.frame_size, ch, gain_steps, modified_frames + 1)
        from(p) ==
            IF p = -1
            THEN [mono |-> FALSE, data |-> data,
                  modified_frames |-> modified_frames]
            ELSE rewrite(p, parse_header(Slice(data, p, p + 4)))
    IN  from(NextAccepted(data, pos))

apply_gain_channel(data, channel, gain_steps) ==
    LET result(r) ==
            IF r.mono
            THEN Err("Cannot apply channel-specific gain to mono file", data)
            ELSE Ok(r.modified_frames, r.data, 1)
    IN  IF gain_steps = 0 THEN Ok(0, data, 0)
        ELSE result(ApplyChannelLoop(data, skip_id3v2(data),
                       IF channel = "Left" THEN 0 ELSE 1, gain_steps, 0))

ApplyGainChannel(c, s) ==
    /\ Len(log) < MaxGainOps
    /\ \E r \in {apply_gain_channel(file, c, s)} :
           /\ file' = r.data
           /\ log' = Append(log, Entry("apply_gain_channel", s, r)
                                  @@ [channel |-> c])
    /\ UNCHANGED <<orig, shape, bitVars, stepVars>>

NextChannel == \E c \in {"Left", "Right"}, s \in {0, 2, -2} : ApplyGainChannel(c, s)
SpecChannel == Init /\ [][NextChannel]_vars

(***************************************************************************)
(* The tag store on its own: a tag is built in memory with ApeTag::set,    *)
(* written to and deleted from a file, and read back.                      *)
(***************************************************************************)
TagKeys == { <<97>>, <<65>>, <<66>> }                         \* "a", "A", "B"
TagValues == { <<>>, <<0, 120>> }                             \* "", "\0x"

IsSet(e) == e.op = "set"
IsTagOp(e) == e.op \in {"write_ape_tag", "delete_ape_tag"}

InitTags ==
    /\ InitFile
    /\ shape.kind = "m2s" /\ shape.n = 1 /\ shape.palette = <<10, 20, 15>>

SetItem(k, v) ==
    /\ pc = "idle" /\ Len(SelectSeq(log, IsSet)) < MaxSets
    /\ mem' = tag_set(mem, k, v)
    /\ log' = Append(log, [op |-> "set", key |-> k, value |-> v])
    /\ UNCHANGED <<file, orig, shape, pc, bitVars>>

WriteApeTag ==
    /\ pc \in {"idle", "tag ops"} /\ Len(SelectSeq(log, IsTagOp)) < MaxTagOps
    /\ file' = write_ape_tag(file, mem)
    /\ log' = Append(log, [op |-> "write_ape_tag", before |-> file])
    /\ pc' = "tag ops"
    /\ UNCHANGED <<orig, shape, mem, bitVars>>

DeleteApeTag ==
    /\ pc \in {"idle", "tag ops"} /\ Len(SelectSeq(log, IsTagOp)) < MaxTagOps
    /\ file' = delete_ape_tag(file)
    /\ log' = Append(log, [op |-> "delete_ape_tag", before |-> file])
    /\ pc' = "tag ops"
    /\ UNCHANGED <<orig, shape, mem, bitVars>>

ReadApeTag ==
    /\ pc \in {"idle", "tag ops"}
    /\ log' = Append(log, [op |-> "read_ape_tag", result |-> read_ape_tag(file)])
    /\ pc' = "tag read"
    /\ UNCHANGED <<file, orig, shape, mem, bitVars>>

NextTags ==
    \/ \E k \in TagKeys, v \in TagValues : SetItem(k, v)
    \/ WriteApeTag
    \/ DeleteApeTag
    \/ ReadApeTag
SpecTags == InitTags /\ [][NextTags]_vars

(***************************************************************************)
(* The MP4 box editor (src/mp4meta.rs).  A file is a sequence of bytes; a  *)
(* box type is kept as its four bytes (u32::from_be_bytes is one-to-one),  *)
(* a size as a number.  The files of the model are far shorter than 2^30   *)
(* bytes, and a 32-bit or 64-bit number of 2^30 or more reads as TooBig:   *)
(* it compares with every position and length of the model as the number   *)
(* itself does.  A 64-bit number of 2^64 - 2^30 or more reads as the       *)
(* negative number it is congruent to modulo 2^64, so that a sum with it   *)
(* that passes 2^64 is the sum the machine computes.  An Option<String> is *)
(* a sequence of no or one string.                                         *)
(***************************************************************************)
\* "moov", "udta", "meta", "ilst", "----", "mean", "name", "data", "mdat",
\* and the tables and containers of the chunk-offset walk
BoxTypes ==
    [MOOV |-> <<109, 111, 111, 118>>, UDTA |-> <<117, 100, 116, 97>>,
     META |-> <<109, 101, 116, 97>>, ILST |-> <<105, 108, 115, 116>>,
     FREEFORM |-> <<45, 45, 45, 45>>, MEAN |-> <<109, 101, 97, 110>>,
     NAME |-> <<110, 97, 109, 101>>, DATA |-> <<100, 97, 116, 97>>,
     MDAT |-> <<109, 100, 97, 116>>, STCO |-> <<115, 116, 99, 111>>,
     CO64 |-> <<99, 111, 54, 52>>, TRAK |-> <<116, 114, 97, 107>>,
     MDIA |-> <<109, 100, 105, 97>>, MINF |-> <<109, 105, 110, 102>>,
     STBL |-> <<115, 116, 98, 108>>]

\* "com.apple.iTunes"
ITUNES_NAMESPACE ==
    <<99, 111, 109, 46, 97, 112, 112, 108, 101, 46, 105, 84, 117, 110, 101, 115>>
\* "replaygain_track_gain"
RG_TRACK_GAIN ==
    <<114, 101, 112, 108, 97, 121, 103, 97, 105, 110, 95, 116, 114, 97, 99, 107, 95, 103, 97, 105, 110>>
\* "replaygain_track_peak"
RG_TRACK_PEAK ==
    <<114, 101, 112, 108, 97, 121, 103, 97, 105, 110, 95, 116, 114, 97, 99, 107, 95, 112, 101, 97, 107>>
\* "replaygain_album_gain"
RG_ALBUM_GAIN ==
    <<114, 101, 112, 108, 97, 121, 103, 97, 105, 110, 95, 97, 108, 98, 117, 109, 95, 103, 97, 105, 110>>
\* "replaygain_album_peak"
RG_ALBUM_PEAK ==
    <<114, 101, 112, 108, 97, 121, 103, 97, 105, 110, 95, 97, 108, 98, 117, 109, 95, 112, 101, 97, 107>>

TooBig == 1073741823

be32(data, pos) ==
    IF At(data, pos) >= 64 THEN TooBig
    ELSE ((At(data, pos) * 256 + At(data, pos + 1)) * 256 + At(data, pos + 2)) * 256
         + At(data, pos + 3)

u32_to_be_bytes(n) ==
    <<(n \div 16777216) % 256, (n \div 65536) % 256, (n \div 256) % 256, n % 256>>

\* (bytes as i64 + size_diff) as u32 or as u64: the sum modulo 256^Len(bytes),
\* carried from the last byte up
RECURSIVE wrapping_add_be(_, _)
wrapping_add_be(bytes, size_diff) ==
    IF bytes = <<>> THEN <<>>
    ELSE LET carry(s) ==
                 Append(wrapping_add_be(SubSeq(bytes, 1, Len(bytes) - 1),
                                        s \div 256),
                        s % 256)
         IN  carry(bytes[Len(bytes)] + size_diff)

\* u64::from_be_bytes of the eight bytes at pos
be64(data, pos) ==
    IF Slice(data, pos, pos + 4) = <<0, 0, 0, 0>> THEN be32(data, pos + 4)
    ELSE IF Slice(data, pos, pos + 4) = <<255, 255, 255, 255>>
            /\ At(data, pos + 4) >= 192
    THEN 0 - ((255 - At(data, pos + 4)) * 16777216
              + (255 - At(data, pos + 5)) * 65536
              + (255 - At(data, pos + 6)) * 256
              + (256 - At(data, pos + 7)))
    ELSE TooBig

\* BoxHeader::read with the cursor at pos; Ok(None) and Err both end every
\* loop that reads a header, and both are None here
BoxHeader_read(data, pos) ==
    IF pos + 8 > Len(data) THEN None
    ELSE
      LET header(size) ==
              IF size = 1 THEN
                 IF pos + 16 > Len(data) THEN None
                 ELSE [ok |-> TRUE,
                       size |-> be64(data, pos + 8),
                       box_type |-> Slice(data, pos + 4, pos + 8),
                       header_size |-> 16]
              ELSE [ok |-> TRUE, size |-> size,
                    box_type |-> Slice(data, pos + 4, pos + 8),
                    header_size |-> 8]
      IN  header(be32(data, pos))

content_size(h) == IF h.size = 0 THEN 0 ELSE h.size - h.header_size

find_box(data, box_type) ==
    LET RECURSIVE scan(_)
        scan(pos) ==
            LET step(h) ==
                    IF ~h.ok THEN None
                    ELSE IF h.box_type = box_type
                    THEN [ok |-> TRUE, pos |-> pos, header |-> h]
                    ELSE IF h.size = 0 THEN None
                    ELSE IF pos + h.size >= Len(data) THEN None
                    ELSE scan(pos + h.size)
            IN  step(BoxHeader_read(data, pos))
    IN  scan(0)

find_box_in_container(data, container_start, container_size, box_type) ==
    LET RECURSIVE scan(_)
        scan(pos) ==
            IF pos + 8 > container_start + container_size THEN None
            ELSE
              LET step(h) ==
                      IF ~h.ok THEN None
                      ELSE IF h.box_type = box_type
                      THEN [ok |-> TRUE, pos |-> pos, header |-> h]
                      ELSE IF h.size = 0 THEN None
                      ELSE scan(pos + h.size)
              IN  step(BoxHeader_read(data, pos))
    IN  scan(container_start)

parse_freeform_tag(data) ==
    LET put(acc, h, start, size) ==
            IF h.box_type = BoxTypes.MEAN /\ size > 4
            THEN [acc EXCEPT !.namespace = <<Slice(data, start + 4, start + size)>>]
            ELSE IF h.box_type = BoxTypes.NAME /\ size > 4
            THEN [acc EXCEPT !.name = <<Slice(data, start + 4, start + size)>>]
            ELSE IF h.box_type = BoxTypes.DATA /\ size > 8
            THEN [acc EXCEPT !.value = <<Slice(data, start + 8, start + size)>>]
            ELSE acc
        RECURSIVE scan(_, _)
        scan(pos, acc) ==
            LET step(h) ==
                    IF ~h.ok THEN acc
                    ELSE IF pos + h.header_size + content_size(h) > Len(data)
                    THEN acc
                    ELSE scan(pos + h.header_size + content_size(h),
                              put(acc, h, pos + h.header_size, content_size(h)))
            IN  step(BoxHeader_read(data, pos))
        result(acc) ==
            IF acc.namespace # <<>> /\ acc.name # <<>> /\ acc.value # <<>>
            THEN [ok |-> TRUE, namespace |-> acc.namespace[1],
                  name |-> acc.name[1], value |-> acc.value[1]]
            ELSE None
    IN  result(scan(0, [namespace |-> <<>>, name |-> <<>>, value |-> <<>>]))

serialize_freeform_tag(tag) ==
    LET freeform(result) ==
            u32_to_be_bytes(8 + Len(result)) \o BoxTypes.FREEFORM \o result
    IN  freeform(u32_to_be_bytes(12 + Len(tag.namespace)) \o BoxTypes.MEAN
                 \o <<0, 0, 0, 0>> \o tag.namespace
                 \o u32_to_be_bytes(12 + Len(tag.name)) \o BoxTypes.NAME
                 \o <<0, 0, 0, 0>> \o tag.name
                 \o u32_to_be_bytes(16 + Len(tag.value)) \o BoxTypes.DATA
                 \o <<0, 0, 0, 0>> \o u32_to_be_bytes(1) \o tag.value)

\* ReplayGainTags::to_freeform_tags
to_freeform_tags(tags) ==
    LET item(field, name) ==
            IF field = <<>> THEN <<>>
            ELSE <<[namespace |-> ITUNES_NAMESPACE, name |-> name,
                    value |-> field[1]]>>
    IN  item(tags.track_gain, RG_TRACK_GAIN) \o item(tags.track_peak, RG_TRACK_PEAK)
        \o item(tags.album_gain, RG_ALBUM_GAIN) \o item(tags.album_peak, RG_ALBUM_PEAK)

eq_ignore_ascii_case(a, b) ==
    /\ Len(a) = Len(b)
    /\ \A i \in 1..Len(a) :
          (IF a[i] \in 65..90 THEN a[i] + 32 ELSE a[i])
          = (IF b[i] \in 65..90 THEN b[i] + 32 ELSE b[i])

\* every existing item copied, the ReplayGain ones too
create_ilst_box_keeps_all(tags, existing_content) ==
    LET RECURSIVE add(_)
        add(items) ==
            IF items = <<>> THEN <<>>
            ELSE serialize_freeform_tag(Head(items)) \o add(Tail(items))
        wrap(content) ==
            u32_to_be_bytes(8 + Len(content)) \o BoxTypes.ILST \o content
    IN  wrap(existing_content \o add(to_freeform_tags(tags)))

create_ilst_box(tags, existing_content) ==
    LET replaygain(tag) ==
            /\ tag.ok
            /\ tag.namespace = ITUNES_NAMESPACE
            /\ \E n \in {RG_TRACK_GAIN, RG_TRACK_PEAK, RG_ALBUM_GAIN, RG_ALBUM_PEAK} :
                  eq_ignore_ascii_case(tag.name, n)
        is_replaygain(h, pos) ==
            /\ h.box_type = BoxTypes.FREEFORM
            /\ replaygain(parse_freeform_tag(
                   Slice(existing_content, pos + h.header_size, pos + h.size)))
        RECURSIVE copy(_, _)
        copy(pos, content) ==
            IF pos + 8 > Len(existing_content) THEN content
            ELSE
              LET step(h) ==
                      IF ~h.ok THEN content
                      ELSE IF h.size = 0 \/ pos + h.size > Len(existing_content)
                      THEN content
                      ELSE copy(pos + h.size,
                                IF is_replaygain(h, pos) THEN content
                                ELSE content
                                     \o Slice(existing_content, pos, pos + h.size))
              IN  step(BoxHeader_read(existing_content, pos))
        RECURSIVE add(_)
        add(items) ==
            IF items = <<>> THEN <<>>
            ELSE serialize_freeform_tag(Head(items)) \o add(Tail(items))
        wrap(content) ==
            u32_to_be_bytes(8 + Len(content)) \o BoxTypes.ILST \o content
    IN  wrap(copy(0, <<>>) \o add(to_freeform_tags(tags)))

\* version/flags, pre_defined, "mdir", "appl", two reserved words, empty name
create_hdlr_box ==
    u32_to_be_bytes(8 + 25) \o <<104, 100, 108, 114>>
    \o <<0, 0, 0, 0>> \o <<0, 0, 0, 0>> \o <<109, 100, 105, 114>>
    \o <<97, 112, 112, 108>> \o <<0, 0, 0, 0>> \o <<0, 0, 0, 0>> \o <<0>>

create_meta_box(ilst) ==
    u32_to_be_bytes(8 + 4 + Len(create_hdlr_box) + Len(ilst)) \o BoxTypes.META
    \o <<0, 0, 0, 0>> \o create_hdlr_box \o ilst

create_udta_box(content) ==
    u32_to_be_bytes(8 + Len(content)) \o BoxTypes.UDTA \o content

\* data[at..at + Len(bytes)].copy_from_slice(bytes)
copy_from_slice(data, at, bytes) ==
    Slice(data, 0, at) \o bytes \o Slice(data, at + Len(bytes), Len(data))

update_box_size(data, box_pos, size_diff) ==
    IF box_pos + 4 > Len(data) THEN data
    ELSE IF be32(data, box_pos) <= 1 THEN data
    ELSE copy_from_slice(data, box_pos,
             wrapping_add_be(Slice(data, box_pos, box_pos + 4), size_diff))

RECURSIVE update_offsets_recursive(_, _, _, _)
update_offsets_recursive(data, start, end, size_diff) ==
    LET RECURSIVE entries(_, _, _, _)
        \* the for loop over the entries of a table, width bytes each
        entries(d, offset_pos, left, width) ==
            IF left = 0 \/ offset_pos + width > Len(d) THEN d
            ELSE entries(copy_from_slice(d, offset_pos,
                             wrapping_add_be(Slice(d, offset_pos, offset_pos + width),
                                             size_diff)),
                         offset_pos + width, left - 1, width)
        table(d, pos, width) ==
            IF pos + 12 + 4 <= Len(d)
            THEN entries(d, pos + 16, be32(d, pos + 12), width)
            ELSE d
        visit(d, pos, size, box_type) ==
            IF box_type = BoxTypes.STCO THEN table(d, pos, 4)
            ELSE IF box_type = BoxTypes.CO64 THEN table(d, pos, 8)
            ELSE IF box_type \in {BoxTypes.TRAK, BoxTypes.MDIA, BoxTypes.MINF,
                                  BoxTypes.STBL, BoxTypes.MOOV, BoxTypes.UDTA}
            THEN update_offsets_recursive(d, pos + 8, pos + size, size_diff)
            ELSE d
        RECURSIVE walk(_, _)
        walk(d, pos) ==
            IF pos + 8 > end THEN d
            ELSE IF be32(d, pos) = 0 \/ pos + be32(d, pos) > end THEN d
            ELSE walk(visit(d, pos, be32(d, pos), Slice(d, pos + 4, pos + 8)),
                      pos + be32(d, pos))
    IN  walk(data, start)

update_chunk_offsets(data, moov_pos, size_diff) ==
    LET with_moov(moov) ==
            IF ~moov.ok THEN data
            ELSE update_offsets_recursive(data, moov_pos + 8,
                                          moov_pos + moov.header.size, size_diff)
    IN  with_moov(find_box(data, BoxTypes.MOOV))

\* the new ilst box and the IlstLocation it goes to
create_or_update_ilst(data, moov_content_start, moov_content_size, tags) ==
    LET NeedsMeta(udta) ==
            [new_ilst |-> create_ilst_box(tags, <<>>), location |-> "NeedsMeta",
             udta_pos |-> udta.pos, udta_size |-> udta.header.size]
        in_ilst(udta, meta, ilst) ==
            IF ~ilst.ok THEN NeedsMeta(udta)
            ELSE [new_ilst |->
                      create_ilst_box(tags,
                          Slice(data, ilst.pos + ilst.header.header_size,
                                ilst.pos + ilst.header.header_size
                                + content_size(ilst.header))),
                  location |-> "Existing",
                  ilst_pos |-> ilst.pos, ilst_size |-> ilst.header.size,
                  meta_pos |-> meta.pos, udta_pos |-> udta.pos]
        in_meta(udta, meta) ==
            IF ~meta.ok THEN NeedsMeta(udta)
            ELSE in_ilst(udta, meta,
                     find_box_in_container(data,
                         meta.pos + meta.header.header_size + 4,
                         content_size(meta.header) - 4, BoxTypes.ILST))
        in_udta(udta) ==
            IF ~udta.ok
            THEN [new_ilst |-> create_ilst_box(tags, <<>>), location |-> "NeedsUdta"]
            ELSE in_meta(udta,
                     find_box_in_container(data,
                         udta.pos + udta.header.header_size,
                         content_size(udta.header), BoxTypes.META))
    IN  in_udta(find_box_in_container(data, moov_content_start,
                                      moov_content_size, BoxTypes.UDTA))

update_mp4_metadata(data, tags) ==
    LET insert(at, removed, bytes) ==
            Slice(data, 0, at) \o bytes \o Slice(data, at + removed, Len(data))
        Existing(moov, info, size_diff) ==
            update_box_size(
              update_box_size(
                update_box_size(
                  insert(info.ilst_pos, info.ilst_size, info.new_ilst),
                  moov.pos, size_diff),
                info.udta_pos, size_diff),
              info.meta_pos, size_diff)
        NeedsMeta(moov, info, meta_box) ==
            update_box_size(
              update_box_size(
                insert(info.udta_pos + info.udta_size, 0, meta_box),
                moov.pos, Len(meta_box)),
              info.udta_pos, Len(meta_box))
        NeedsUdta(moov, udta_box) ==
            update_box_size(insert(moov.pos + moov.header.size, 0, udta_box),
                            moov.pos, Len(udta_box))
        rebuilt(moov, info) ==
            IF info.location = "Existing"
            THEN Existing(moov, info, Len(info.new_ilst) - info.ilst_size)
            ELSE IF info.location = "NeedsMeta"
            THEN NeedsMeta(moov, info, create_meta_box(info.new_ilst))
            ELSE NeedsUdta(moov, create_udta_box(create_meta_box(info.new_ilst)))
        offsets(moov, mdat, result) ==
            IF mdat.ok /\ mdat.pos > moov.pos /\ Len(result) - Len(data) # 0
            THEN update_chunk_offsets(result, moov.pos, Len(result) - Len(data))
            ELSE result
        with_moov(moov) ==
            IF ~moov.ok
            THEN [ok |-> FALSE, err |-> "No moov box found in MP4 file", data |-> data]
            ELSE [ok |-> TRUE, err |-> "",
                  data |-> offsets(moov, find_box(data, BoxTypes.MDAT),
                               rebuilt(moov,
                                   create_or_update_ilst(data,
                                       moov.pos + moov.header.header_size,
                                       content_size(moov.header), tags)))]
    IN  with_moov(find_box(data, BoxTypes.MOOV))

(***************************************************************************)
(* MP4 files of the model: ftyp, then moov and mdat in either order.  moov *)
(* holds mvhd, one trak with its chunk-offset table (two chunks of four    *)
(* bytes in mdat) and, by layout, a udta box with or without meta and ilst.*)
(***************************************************************************)
MaxWrites == 2      \* write_replaygain_tags / delete_replaygain_tags calls

Box(type, content) == u32_to_be_bytes(8 + Len(content)) \o type \o content
\* the same box written with a 64-bit extended size
Box64(type, content) ==
    <<0, 0, 0, 1>> \o type \o <<0, 0, 0, 0>> \o u32_to_be_bytes(16 + Len(content))
    \o content

Mp4Shapes ==
    {s \in [layout : {"ilst", "ilst with ReplayGain", "meta", "udta", "no udta",
                      "no moov"},
            order : {"moov first", "mdat first"},
            table : {"stco", "co64"}, moov_header : {8, 16},
            udta_at : {"front", "end"}] :
        /\ s.layout = "no udta" => s.udta_at = "end"
        /\ s.layout = "no moov" =>
              s.udta_at = "end" /\ s.moov_header = 8 /\ s.table = "stco"
                                /\ s.order = "mdat first"}

\* items of a generated ilst: a (c)nam text item, a freeform item of another
\* tool, old ReplayGain items (one with an upper-case name) and an item that
\* carries a ReplayGain name in another namespace
Mp4Items ==
    [nam |-> Box(<<169, 110, 97, 109>>,
                 Box(BoxTypes.DATA, <<0, 0, 0, 1, 0, 0, 0, 0>> \o <<84>>)),
     tool |-> serialize_freeform_tag([namespace |-> ITUNES_NAMESPACE,
                                      name |-> <<116, 111, 111, 108>>,
                                      value |-> <<120>>]),
     old_track_gain |->
         serialize_freeform_tag([namespace |-> ITUNES_NAMESPACE,
                                 name |-> to_uppercase(RG_TRACK_GAIN),
                                 value |-> <<45, 50, 46, 48, 48, 32, 100, 66>>]),
     old_album_peak |->
         serialize_freeform_tag([namespace |-> ITUNES_NAMESPACE,
                                 name |-> RG_ALBUM_PEAK,
                                 value |-> <<48, 46, 57>>]),
     foreign |-> serialize_freeform_tag([namespace |-> <<111, 114, 103, 46, 120>>,
                                         name |-> RG_TRACK_GAIN,
                                         value |-> <<49>>])]

\* the chunk offsets point at the two halves of the mdat payload
MakeMp4(s) ==
    LET ftyp == Box(<<102, 116, 121, 112>>, <<77, 52, 65, 32>> \o <<0, 0, 0, 0>>)
        mdat == Box(BoxTypes.MDAT, <<1, 2, 3, 4, 5, 6, 7, 8>>)
        meta(content) ==
            Box(BoxTypes.UDTA,
                Box(BoxTypes.META, <<0, 0, 0, 0>> \o create_hdlr_box \o content))
        udta ==
            IF s.layout = "ilst"
            THEN meta(Box(BoxTypes.ILST, Mp4Items.nam \o Mp4Items.tool))
            ELSE IF s.layout = "ilst with ReplayGain"
            THEN meta(Box(BoxTypes.ILST,
                          Mp4Items.nam \o Mp4Items.old_track_gain
                          \o Mp4Items.foreign \o Mp4Items.old_album_peak
                          \o Mp4Items.tool))
            ELSE IF s.layout = "meta" THEN meta(<<>>)
            ELSE IF s.layout = "udta"
            THEN Box(BoxTypes.UDTA, Box(<<88, 116, 114, 97>>, <<7>>))
            ELSE <<>>
        table(first) ==
            IF s.table = "stco"
            THEN Box(BoxTypes.STCO,
                     <<0, 0, 0, 0>> \o u32_to_be_bytes(2)
                     \o u32_to_be_bytes(first) \o u32_to_be_bytes(first + 4))
            ELSE Box(BoxTypes.CO64,
                     <<0, 0, 0, 0>> \o u32_to_be_bytes(2)
                     \o <<0, 0, 0, 0>> \o u32_to_be_bytes(first)
                     \o <<0, 0, 0, 0>> \o u32_to_be_bytes(first + 4))
        trak(first) ==
            Box(BoxTypes.TRAK,
                Box(BoxTypes.MDIA,
                    Box(BoxTypes.MINF, Box(BoxTypes.STBL, table(first)))))
        content(first) ==
            IF s.udta_at = "front"
            THEN Box(<<109, 118, 104, 100>>, <<0, 0, 0, 0>>) \o udta \o trak(first)
            ELSE Box(<<109, 118, 104, 100>>, <<0, 0, 0, 0>>) \o trak(first) \o udta
        moov(first) ==
            IF s.moov_header = 16 THEN Box64(BoxTypes.MOOV, content(first))
            ELSE Box(BoxTypes.MOOV, content(first))
    IN  IF s.layout = "no moov" THEN ftyp \o mdat
        ELSE IF s.order = "mdat first"
        THEN ftyp \o mdat \o moov(Len(ftyp) + 8)
        ELSE ftyp \o moov(Len(ftyp) + Len(moov(0)) + 8) \o mdat

\* ReplayGainTags::new()
ReplayGainTags_new ==
    [track_gain |-> <<>>, track_peak |-> <<>>, album_gain |-> <<>>,
     album_peak |-> <<>>]
\* ReplayGainTags values: set_track, set_track with a longer text, and
\* set_track with set_album
TagChoices ==
    {[ReplayGainTags_new EXCEPT !.track_gain = <<<<43, 49, 46, 48, 48, 32, 100, 66>>>>,
                                !.track_peak = <<<<48, 46, 53, 48, 48, 48, 48, 48>>>>],
     [ReplayGainTags_new EXCEPT !.track_gain = <<<<45, 49, 48, 46, 50, 53, 32, 100, 66>>>>,
                                !.track_peak = <<<<48, 46, 53, 48, 48, 48, 48, 48>>>>],
     [track_gain |-> <<<<43, 49, 46, 48, 48, 32, 100, 66>>>>,
      track_peak |-> <<<<48, 46, 53, 48, 48, 48, 48, 48>>>>,
      album_gain |-> <<<<45, 48, 46, 53, 48, 32, 100, 66>>>>,
      album_peak |-> <<<<48, 46, 57, 56, 55, 54, 53, 48>>>>]}

InitMp4 ==
    /\ shape \in Mp4Shapes
    /\ orig = MakeMp4(shape)
    /\ file = orig
    /\ log = <<>>
    /\ NoBits
    /\ pc = "idle" /\ mem = <<>>

\* fs::read, update_mp4_metadata, and fs::write when that succeeded
WriteReplayGainTags(tags) ==
    /\ Len(log) < MaxWrites
    /\ \E r \in {update_mp4_metadata(file, tags)} :
          /\ file' = (IF r.ok THEN r.data ELSE file)
          /\ log' = Append(log, [op |-> "write_replaygain_tags", tags |-> tags,
                                 ok |-> r.ok, err |-> r.err, before |-> file])
    /\ UNCHANGED <<orig, shape, bitVars, stepVars>>

\* write_replaygain_tags with ReplayGainTags::new()
DeleteReplayGainTags ==
    /\ Len(log) < MaxWrites
    /\ \E r \in {update_mp4_metadata(file, ReplayGainTags_new)} :
          /\ file' = (IF r.ok THEN r.data ELSE file)
          /\ log' = Append(log, [op |-> "delete_replaygain_tags",
                                 tags |-> ReplayGainTags_new,
                                 ok |-> r.ok, err |-> r.err, before |-> file])
    /\ UNCHANGED <<orig, shape, bitVars, stepVars>>

NextMp4 ==
    \/ \E t \in TagChoices : WriteReplayGainTags(t)
    \/ DeleteReplayGainTags
SpecMp4 == InitMp4 /\ [][NextMp4]_vars

(***************************************************************************)
(* analyze as an operation of its own, on files that apply_gain may have   *)
(* rewritten before.                                                       *)
(***************************************************************************)
Analyze ==
    /\ Len(log) <= MaxGainOps
    /\ IF log = <<>> THEN TRUE ELSE log[Len(log)].op # "analyze"
    /\ log' = Append(log, [op |-> "analyze", before |-> file,
                           result |-> analyze(file)])
    /\ UNCHANGED <<file, orig, shape, bitVars, stepVars>>

NextAnalyze ==
    \/ Analyze
    \/ \E s \in {2, -2} : ApplyGain(s)
SpecAnalyze == Init /\ [][NextAnalyze]_vars

(***************************************************************************)
(* The conversions between decibels and gain steps.  A number of decibels  *)
(* is counted in quarters of a dB: the quotient db / GAIN_STEP_DB is then  *)
(* a fraction of two integers, and f64 holds it exactly wherever it is an  *)
(* integer or ends in .5, so round() sees the fraction itself.             *)
(***************************************************************************)
MaxConversions == 3     \* conversions in one run
MaxStepsArg == 3        \* |n| of steps_to_db(n)
MaxDbArg == 9           \* |db| of db_to_steps(db), in quarters of a dB

\* rounding toward zero
db_to_steps_truncating(db) ==
    IF db >= 0 THEN db \div GAIN_STEP_DB ELSE -((-db) \div GAIN_STEP_DB)

\* (db / GAIN_STEP_DB).round() as i32: f64::round takes a half away from zero
db_to_steps(db) ==
    IF db >= 0 THEN (2 * db + GAIN_STEP_DB) \div (2 * GAIN_STEP_DB)
    ELSE -((2 * (-db) + GAIN_STEP_DB) \div (2 * GAIN_STEP_DB))

steps_to_db(steps) == steps * GAIN_STEP_DB

InitDb ==
    /\ file = <<>> /\ orig = <<>> /\ shape = "none" /\ log = <<>>
    /\ NoBits
    /\ pc = "idle" /\ mem = <<>>

StepsToDb(n) ==
    /\ Len(log) < MaxConversions
    /\ log' = Append(log, [op |-> "steps_to_db", arg |-> n,
                           result |-> steps_to_db(n)])
    /\ UNCHANGED <<file, orig, shape, bitVars, stepVars>>

\* db_to_steps of a given number of decibels
DbToSteps(db) ==
    /\ Len(log) < MaxConversions
    /\ log' = Append(log, [op |-> "db_to_steps", arg |-> db,
                           result |-> db_to_steps(db)])
    /\ UNCHANGED <<file, orig, shape, bitVars, stepVars>>

\* db_to_steps(steps_to_db(n)): of the result of the conversion before
DbToStepsOfResult ==
    /\ Len(log) >= 1 /\ Len(log) < MaxConversions
    /\ log[Len(log)].op = "steps_to_db"
    /\ log' = Append(log, [op |-> "db_to_steps", arg |-> log[Len(log)].result,
                           result |-> db_to_steps(log[Len(log)].result)])
    /\ UNCHANGED <<file, orig, shape, bitVars, stepVars>>

NextDb ==
    \/ \E n \in (-MaxStepsArg)..MaxStepsArg : StepsToDb(n)
    \/ \E db \in (-MaxDbArg)..MaxDbArg : DbToSteps(db)
    \/ DbToStepsOfResult
SpecDb == InitDb /\ [][NextDb]_vars

(***************************************************************************)
(* The ReplayGain loudness analyzer (src/src/replaygain.rs).  A            *)
(* LoudnessHistogram is a bag of bucket indices: data[i] is the number of  *)
(* copies of i in the bag.  Loudness and gain are counted in hundredths of *)
(* a decibel, the resolution of the histogram.  The samples are those the  *)
(* analyzer is handed, after the equal-loudness filter.                    *)
(***************************************************************************)
PINK_REF == 6482            \* 64.82 dB
HISTOGRAM_SIZE == 12000
HISTOGRAM_OFFSET == 7000
WindowSamples == 2          \* (sample_rate * 50) / 1000 of the model's rate

LoudnessHistogram_new == EmptyBag

\* the other way round: the other histogram replaces this one
accumulate_overwriting(self, other) == other
\* self.data[i] += count, for every i
accumulate(self, other) == self (+) other

\* ((total as f64) * (1.0 - RMS_PERCENTILE)).ceil() as u64.  The f64
\* 1.0 - 0.95 is (1 + 2^-50) / 20 exactly, above one twentieth; the f64
\* product with a total below 2^50 is above total / 20 by more than its
\* rounding when total is a multiple of 20 and below the next integer when it
\* is not, so its ceiling is the whole part of total / 20, plus one.
percentile_threshold(total) == total \div 20 + 1

\* the descending loop visits every index; an index with no count leaves
\* `count` as it is and the threshold is positive, so only the indices that
\* have a count can return
get_loudness(self) ==
    LET total == BagCardinality(self)
        RECURSIVE rev(_, _)
        rev(below, count) ==
            LET is == {j \in BagToSet(self) : j < below}
                top(s) == CHOOSE j \in s : \A k \in s : k <= j
                sum(i) == count + CopiesIn(i, self)
            IN  IF is = {} THEN -7000
                ELSE IF sum(top(is)) >= percentile_threshold(total)
                THEN top(is) - HISTOGRAM_OFFSET
                ELSE rev(top(is), sum(top(is)))
    IN  IF total = 0 THEN -7000 ELSE rev(HISTOGRAM_SIZE, 0)

ReplayGainAnalyzer_new ==
    [lsum |-> 0, rsum |-> 0, totsamp |-> 0, window_samples |-> WindowSamples,
     histogram |-> LoudnessHistogram_new]

\* (STEPS_PER_DB * 10.0 * (mean_square + 1e-37).log10()) as i32, for
\* mean_square = (lsum + rsum) / totsamp * 0.5 given as its quarters.  The
\* squares of the model's samples are 0, 1 and 10^6 and a window holds one or
\* two samples, so that mean_square is exact and is one of the values below;
\* 1e-37 is lost in every sum but the one with zero.  `as i32` truncates
\* towards zero: 1000 * log10(0.75) = -124.93... gives -124.
val_as_i32(quarters) ==
    CASE quarters = 0 -> -37000
      [] quarters = 1 -> -602
      [] quarters = 2 -> -301
      [] quarters = 3 -> -124
      [] quarters = 4 -> 0
      [] quarters \div 1000000 = 1 /\ quarters % 1000000 < 4 -> 5397
      [] quarters \div 1000000 = 2 /\ quarters % 1000000 < 3 -> 5698
      [] quarters \div 1000000 = 3 /\ quarters % 1000000 < 2 -> 5875
      [] quarters = 4000000 -> 6000

\* `idx` is a usize: a negative sum wraps to a number above HISTOGRAM_SIZE
finish_window(self) ==
    IF self.totsamp = 0 THEN self
    ELSE LET idx(a) ==
                 val_as_i32((2 * (a.lsum + a.rsum)) \div a.totsamp)
                 + HISTOGRAM_OFFSET
         IN  [self EXCEPT
                !.histogram = IF 0 <= idx(self) /\ idx(self) < HISTOGRAM_SIZE
                              THEN self.histogram (+) SetToBag({idx(self)})
                              ELSE self.histogram,
                !.lsum = 0, !.rsum = 0, !.totsamp = 0]

add_sample(self, left, right) ==
    LET added(a) == [a EXCEPT !.lsum = @ + left * left,
                              !.rsum = @ + right * right,
                              !.totsamp = @ + 1]
    IN  IF added(self).totsamp >= self.window_samples
        THEN finish_window(added(self)) ELSE added(self)

add_mono_sample(self, sample) ==
    LET added(a) == [a EXCEPT !.lsum = @ + sample * sample,
                              !.rsum = @ + sample * sample,
                              !.totsamp = @ + 1]
    IN  IF added(self).totsamp >= self.window_samples
        THEN finish_window(added(self)) ELSE added(self)

\* analyze_track_internal from the end of its packet loop: the analyzer has
\* been fed every sample of the track
analyze_track_internal(analyzer) ==
    LET done(a) == finish_window(a).histogram
    IN  [result |-> [loudness_db |-> get_loudness(done(analyzer)),
                     gain_db |-> PINK_REF - get_loudness(done(analyzer))],
         histogram |-> done(analyzer)]

\* analyze_album_with_index over the analyses of its files, in their order
analyze_album_with_index(files) ==
    LET RECURSIVE album_histogram(_)
        album_histogram(n) ==
            IF n = 0 THEN LoudnessHistogram_new
            ELSE accumulate(album_histogram(n - 1), files[n].histogram)
        loudness(h) == get_loudness(h)
    IN  [tracks |-> [i \in 1..Len(files) |-> files[i].result],
         album_histogram |-> album_histogram(Len(files)),
         album_loudness_db |-> loudness(album_histogram(Len(files))),
         album_gain_db |-> PINK_REF - loudness(album_histogram(Len(files)))]

(***************************************************************************)
(* The analyzer at work.  A track is opened on the samples its decoder     *)
(* will give (`file`: those not yet fed, a mono sample as <<s>>, a stereo  *)
(* pair as <<l, r>>); they reach the analyzer in `mem` one at a time; at   *)
(* their end the track is finished and logged with its analysis.  An album *)
(* is analyzed from the finished tracks in any order.                      *)
(***************************************************************************)
MaxTracks == 2      \* tracks analyzed
MaxSamples == 2     \* samples of a short track
RunLength == 38     \* samples of a long track, all equal

\* the samples of a track: mono ones (silence, a moderate one, one beyond
\* the histogram), or stereo pairs, or a long run of one pair
TrackSamples ==
    LET SampleValues == {0, 1, 1000}
        StereoSamples == {<<1, 0>>, <<1000, 1>>}
        RunSamples == {<<0, 0>>, <<1, 0>>, <<1, 1>>}
    IN  UNION {[1..n -> {<<s>> : s \in SampleValues}] : n \in 0..MaxSamples}
        \cup UNION {[1..n -> StereoSamples] : n \in 1..MaxSamples}
        \cup {[i \in 1..RunLength |-> s] : s \in RunSamples}

InitRg ==
    /\ file = <<>> /\ orig = <<>> /\ shape = "none" /\ log = <<>>
    /\ NoBits
    /\ pc = "idle"
    /\ mem = [analyzer |-> ReplayGainAnalyzer_new, fed |-> 0]

\* analyze_track_internal up to its packet loop
OpenTrack(samples) ==
    /\ pc = "idle"
    /\ Len(log) < MaxTracks
    /\ IF log = <<>> THEN TRUE ELSE log[Len(log)].op = "analyze_track"
    /\ file' = samples
    /\ mem' = [analyzer |-> ReplayGainAnalyzer_new, fed |-> 0]
    /\ pc' = "decoding"
    /\ UNCHANGED <<orig, shape, log, bitVars>>

AddSample ==
    /\ pc = "decoding"
    /\ file # <<>> /\ Len(Head(file)) = 2
    /\ mem' = [analyzer |-> add_sample(mem.analyzer, Head(file)[1],
                                       Head(file)[2]),
               fed |-> mem.fed + 1]
    /\ file' = Tail(file)
    /\ UNCHANGED <<orig, shape, log, bitVars, pc>>

AddMonoSample ==
    /\ pc = "decoding"
    /\ file # <<>> /\ Len(Head(file)) = 1
    /\ mem' = [analyzer |-> add_mono_sample(mem.analyzer, Head(file)[1]),
               fed |-> mem.fed + 1]
    /\ file' = Tail(file)
    /\ UNCHANGED <<orig, shape, log, bitVars, pc>>

\* analyze_track_internal from the end of its packet loop
FinishTrack ==
    /\ pc = "decoding"
    /\ file = <<>>
    /\ log' = Append(log, [op |-> "analyze_track", fed |-> mem.fed,
                           internal |-> analyze_track_internal(mem.analyzer)])
    /\ pc' = "idle"
    /\ UNCHANGED <<file, orig, shape, bitVars, mem>>

\* analyze_album over the finished tracks in any order; no track is analyzed
\* after it
AnalyzeAlbum ==
    /\ pc = "idle"
    /\ Len(log) >= 1
    /\ log[Len(log)].op = "analyze_track"
    /\ \E order \in {o \in [1..Len(log) -> 1..Len(log)] :
                         \A i, j \in 1..Len(log) : o[i] = o[j] => i = j} :
          log' = Append(log, [op |-> "analyze_album", order |-> order,
                              album |-> analyze_album_with_index(
                                  [i \in 1..Len(log) |->
                                      log[order[i]].internal])])
    /\ UNCHANGED <<file, orig, shape, bitVars, stepVars>>

NextRg ==
    \/ \E samples \in TrackSamples : OpenTrack(samples)
    \/ AddSample
    \/ AddMonoSample
    \/ FinishTrack
    \/ AnalyzeAlbum
SpecRg == InitRg /\ [][NextRg]_vars

(***************************************************************************)
(* The loops over an input buffer, one iteration a step.  `file` is the    *)
(* buffer of the running call and `pc` the function whose loop runs; `mem` *)
(* holds the loop's position, the end of its range, the iterations its for *)
(* loop has left, the frames of the calls around it, the positions at      *)
(* which an iteration has begun, and whether the build checks arithmetic   *)
(* overflow (a debug build panics on it, a release build wraps modulo      *)
(* 2^64).  The log is the outcome of the last call that has returned.      *)
(***************************************************************************)
MaxPieces == 2      \* pieces a malformed buffer is put together from

\* a + b of two usize, one of them a position of the model
add_usize(a, b) ==
    [overflow |-> (a < 0 \/ b < 0) /\ a + b >= 0,
     value |-> IF a + b >= TooBig THEN TooBig ELSE a + b]
\* a usize above every position and length of the model
Huge(a) == a < 0 \/ a >= TooBig

\* boxes with a size of 0, below the header's, past the end, of 2^64 - 8 and
\* of 2^64 - 16, with a 64-bit size of 8, a header cut short, a
\* container, a chunk-offset table that counts more entries than it has, and
\* the boxes the loops look for
MalformedBoxes ==
    LET pieces ==
            { <<0, 0, 0, 8>> \o <<102, 114, 101, 101>>,
              <<0, 0, 0, 0>> \o <<102, 114, 101, 101>>,
              <<0, 0, 0, 4>> \o <<109, 101, 97, 110>>,
              <<0, 0, 0, 64>> \o <<102, 114, 101, 101>>,
              <<0, 0, 0, 1>> \o <<102, 114, 101, 101>> \o <<255, 255, 255, 255, 255, 255, 255, 248>>,
              <<0, 0, 0, 1>> \o <<110, 97, 109, 101>> \o <<255, 255, 255, 255, 255, 255, 255, 240>>,
              <<0, 0, 0, 1>> \o <<100, 97, 116, 97>> \o <<0, 0, 0, 0, 0, 0, 0, 8>>,
              <<0, 0, 0>>,
              <<0, 0, 0, 16>> \o <<116, 114, 97, 107>> \o <<0, 0, 0, 8>> \o <<102, 114, 101, 101>>,
              <<0, 0, 0, 20>> \o <<115, 116, 99, 111>> \o <<0, 0, 0, 0>> \o <<0, 0, 0, 3>>
                  \o <<0, 0, 0, 40>>,
              <<0, 0, 0, 12>> \o <<45, 45, 45, 45>> \o <<0, 0, 0, 4>>,
              <<0, 0, 0, 8>> \o <<109, 111, 111, 118>>,
              <<0, 0, 0, 8>> \o <<117, 100, 116, 97>> }
        RECURSIVE row(_)
        row(n) == IF n = 0 THEN {<<>>}
                  ELSE {a \o b : a \in row(n - 1), b \in pieces}
    IN  UNION {row(n) : n \in 0..MaxPieces}

\* frame headers with and without a body, lone sync bytes, an ID3v2 header
\* that declares more than the file has
MalformedAudio ==
    LET pieces ==
            { <<255, 243, 20, 0>> \o Fill(20, 0),
              <<255, 243, 20, 0>>,
              <<255, 243, 22, 0>> \o Fill(20, 0),
              <<255>>, <<255, 243>>, <<0, 0>> }
        RECURSIVE row(_)
        row(n) == IF n = 0 THEN {<<>>}
                  ELSE {a \o b : a \in row(n - 1), b \in pieces}
    IN  UNION {row(n) : n \in 0..MaxPieces}
        \cup {ID3 \o <<3, 0, 0, 0, 0, 0, 100>> \o <<255, 243, 20, 0>>}

\* APEv2 tags: items with a value size past the end, a key without its null
\* terminator, an item cut short; footers that count more items than there
\* are and give a size of less than a footer, of the items, or of more than
\* the file
MalformedTags ==
    LET pieces ==
            { <<1, 0, 0, 0>> \o <<0, 0, 0, 0>> \o <<65, 0>> \o <<120>>,
              <<200, 0, 0, 0>> \o <<0, 0, 0, 0>> \o <<65, 0>> \o <<120>>,
              <<0, 0, 0, 0>> \o <<0, 0, 0, 0>> \o <<65, 66, 67>>,
              <<0, 0, 0, 0>> \o <<0, 0, 0, 0>> \o <<0>>,
              <<1, 0, 0>> }
        RECURSIVE row(_)
        row(n) == IF n = 0 THEN {<<>>}
                  ELSE {a \o b : a \in row(n - 1), b \in pieces}
        footer(tag_size, item_count) ==
            APE_PREAMBLE \o u32_to_le_bytes(APE_VERSION)
            \o u32_to_le_bytes(tag_size) \o u32_to_le_bytes(item_count)
            \o <<0, 0, 0, 0>> \o Reserved8
    IN  {items \o footer(tag_size, item_count) :
            items \in UNION {row(n) : n \in 0..MaxPieces},
            tag_size \in {16, 32, 43, 54, 100},
            item_count \in {0, 1, 300}}

LoopKinds ==
    {"iterate_frames", "read_ape_tag", "find_box", "find_box_in_container",
     "parse_freeform_tag", "create_ilst_box", "update_offsets_recursive"}

NoLoop ==
    [pos |-> 0, end |-> 0, left |-> 0, stack |-> <<>>, visited |-> {},
     checks |-> FALSE]

InitWalk ==
    /\ file = <<>> /\ orig = <<>> /\ shape = "none" /\ log = <<>>
    /\ NoBits
    /\ pc = "idle"
    /\ mem = NoLoop

\* a function is called on a buffer and runs up to its loop; the range that
\* find_box_in_container and update_offsets_recursive are given by their
\* callers is the buffer, or begins and ends eight bytes behind
Call ==
    LET loop(kind, data, checks, pos, e, left) ==
            /\ pc' = kind
            /\ file' = data
            /\ mem' = [pos |-> pos, end |-> e, left |-> left, stack |-> <<>>,
                       visited |-> {}, checks |-> checks]
            /\ log' = <<>>
        \* read_ape_tag up to its for loop
        tag(data, footer_start) ==
            IF footer_start = -1
               \/ read_u32_le(data, footer_start + 8) # APE_VERSION
               \/ footer_start + 32 < read_u32_le(data, footer_start + 12)
            THEN /\ log' = <<[op |-> "read_ape_tag", outcome |-> "None"]>>
                 /\ UNCHANGED <<file, pc, mem>>
            ELSE loop("read_ape_tag", data, FALSE,
                      footer_start + 32 - read_u32_le(data, footer_start + 12),
                      footer_start, read_u32_le(data, footer_start + 16))
    IN  /\ pc = "idle"
        /\ \/ \E data \in MalformedAudio :
                 loop("iterate_frames", data, FALSE, skip_id3v2(data),
                      Len(data), 0)
           \/ \E data \in MalformedTags : tag(data, find_ape_footer(data))
           \/ \E data \in MalformedBoxes, checks \in BOOLEAN :
                 \/ \E kind \in {"find_box", "parse_freeform_tag",
                                  "create_ilst_box"} :
                       loop(kind, data, checks, 0, Len(data), 0)
                 \/ \E kind \in {"find_box_in_container",
                                  "update_offsets_recursive"},
                       start \in {0, 8} :
                       loop(kind, data, checks, start, Len(data) + start, 0)
        /\ UNCHANGED <<orig, shape, bitVars>>

\* one iteration of the while loop of iterate_frames
iterate_frames_iteration ==
    LET exit(outcome) ==
            /\ log' = <<[op |-> pc, outcome |-> outcome]>>
            /\ pc' = "idle" /\ file' = <<>>
            /\ mem' = NoLoop
        goto(pos) ==
            /\ mem' = [mem EXCEPT !.pos = pos,
                                  !.visited = mem.visited \cup {mem.pos}]
            /\ UNCHANGED <<file, log, pc>>
        body(header) ==
            IF ~header.ok THEN goto(mem.pos + 1)
            ELSE IF ~valid_frame(file, mem.pos + header.frame_size)
            THEN goto(mem.pos + 1)
            ELSE goto(mem.pos + header.frame_size)
    IN  /\ pc = "iterate_frames"
        /\ IF mem.pos + 4 > Len(file) THEN exit("Ok")
           ELSE body(parse_header(Slice(file, mem.pos, mem.pos + 4)))
        /\ UNCHANGED <<orig, shape, bitVars>>

\* one iteration of the for loop of read_ape_tag, the while loop over the key
\* inside it
read_ape_tag_iteration ==
    LET exit(outcome) ==
            /\ log' = <<[op |-> pc, outcome |-> outcome]>>
            /\ pc' = "idle" /\ file' = <<>>
            /\ mem' = NoLoop
        goto(pos) ==
            /\ mem' = [mem EXCEPT !.pos = pos, !.left = mem.left - 1,
                                  !.visited = mem.visited \cup {mem.pos}]
            /\ UNCHANGED <<file, log, pc>>
        body(value_size, key_end) ==
            IF key_end >= mem.end THEN exit("Some")
            ELSE IF key_end + 1 + value_size > mem.end THEN exit("Some")
            ELSE goto(key_end + 1 + value_size)
    IN  /\ pc = "read_ape_tag"
        /\ IF mem.left = 0 \/ mem.pos + 8 > mem.end THEN exit("Some")
           ELSE body(read_u32_le(file, mem.pos),
                     KeyEnd(file, mem.pos + 8, mem.end))
        /\ UNCHANGED <<orig, shape, bitVars>>

\* one iteration of the while loop of find_box, looking for moov
find_box_iteration ==
    LET exit(outcome) ==
            /\ log' = <<[op |-> pc, outcome |-> outcome]>>
            /\ pc' = "idle" /\ file' = <<>>
            /\ mem' = NoLoop
        goto(pos) ==
            /\ mem' = [mem EXCEPT !.pos = pos,
                                  !.visited = mem.visited \cup {mem.pos}]
            /\ UNCHANGED <<file, log, pc>>
        skip(next_pos) ==
            IF next_pos.overflow /\ mem.checks THEN exit("panic")
            ELSE IF Huge(next_pos.value) \/ next_pos.value >= Len(file)
            THEN exit("None")
            ELSE goto(next_pos.value)
        body(header) ==
            IF ~header.ok THEN exit("None")
            ELSE IF header.box_type = BoxTypes.MOOV THEN exit("Some")
            ELSE IF header.size = 0 THEN exit("None")
            ELSE skip(add_usize(mem.pos, header.size))
    IN  /\ pc = "find_box"
        /\ body(BoxHeader_read(file, mem.pos))
        /\ UNCHANGED <<orig, shape, bitVars>>

\* one iteration of the while loop of find_box_in_container, looking for
\* udta; &data[pos..] panics behind the end of the buffer
find_box_in_container_iteration ==
    LET exit(outcome) ==
            /\ log' = <<[op |-> pc, outcome |-> outcome]>>
            /\ pc' = "idle" /\ file' = <<>>
            /\ mem' = NoLoop
        goto(pos) ==
            /\ mem' = [mem EXCEPT !.pos = pos,
                                  !.visited = mem.visited \cup {mem.pos}]
            /\ UNCHANGED <<file, log, pc>>
        skip(next_pos) ==
            IF next_pos.overflow /\ mem.checks THEN exit("panic")
            ELSE goto(next_pos.value)
        body(header) ==
            IF ~header.ok THEN exit("None")
            ELSE IF header.box_type = BoxTypes.UDTA THEN exit("Some")
            ELSE IF header.size = 0 THEN exit("None")
            ELSE skip(add_usize(mem.pos, header.size))
        test(limit) ==
            IF limit.overflow /\ mem.checks THEN exit("panic")
            ELSE IF Huge(limit.value) \/ limit.value > mem.end THEN exit("None")
            ELSE IF Huge(mem.pos) \/ mem.pos > Len(file) THEN exit("panic")
            ELSE body(BoxHeader_read(file, mem.pos))
    IN  /\ pc = "find_box_in_container"
        /\ test(add_usize(mem.pos, 8))
        /\ UNCHANGED <<orig, shape, bitVars>>

\* one iteration of the while loop of parse_freeform_tag: content_size() is
\* size - header_size, and the cursor is set to content_start + content_size,
\* each modulo 2^64 in a build that does not check; a slice that ends before
\* it starts panics
parse_freeform_tag_iteration ==
    LET exit(outcome) ==
            /\ log' = <<[op |-> pc, outcome |-> outcome]>>
            /\ pc' = "idle" /\ file' = <<>>
            /\ mem' = NoLoop
        goto(pos) ==
            /\ mem' = [mem EXCEPT !.pos = pos,
                                  !.visited = mem.visited \cup {mem.pos}]
            /\ UNCHANGED <<file, log, pc>>
        \* content_size > n, for the size the header has
        longer(header, n) ==
            header.size # 0
            /\ (Huge(header.size) \/ header.size < header.header_size
                \/ header.size - header.header_size > n)
        skipped(header) ==
            IF header.box_type \in {BoxTypes.MEAN, BoxTypes.NAME} THEN 4
            ELSE IF header.box_type = BoxTypes.DATA THEN 8
            ELSE -1
        body(header, content_end) ==
            IF header.size # 0 /\ mem.checks
               /\ (content_end.overflow
                   \/ (~Huge(header.size) /\ header.size < header.header_size))
            THEN exit("panic")
            ELSE IF Huge(content_end.value) \/ content_end.value > Len(file)
            THEN exit("result")
            ELSE IF skipped(header) >= 0 /\ longer(header, skipped(header))
                    /\ mem.pos + header.header_size + skipped(header)
                       > content_end.value
            THEN exit("panic")
            ELSE goto(content_end.value)
        read(header) ==
            IF ~header.ok THEN exit("result")
            ELSE body(header,
                      IF header.size = 0
                      THEN add_usize(mem.pos, header.header_size)
                      ELSE add_usize(mem.pos, header.size))
    IN  /\ pc = "parse_freeform_tag"
        /\ read(BoxHeader_read(file, mem.pos))
        /\ UNCHANGED <<orig, shape, bitVars>>

\* one iteration of the while loop of create_ilst_box over the existing
\* content; the items it copies are create_ilst_box's, the loop that
\* parse_freeform_tag runs on a "----" item is parse_freeform_tag_iteration's.
\* The slices existing_content[pos..pos + size] and [pos + header_size..pos +
\* size] panic when they end before they start.
create_ilst_box_iteration ==
    LET exit(outcome) ==
            /\ log' = <<[op |-> pc, outcome |-> outcome]>>
            /\ pc' = "idle" /\ file' = <<>>
            /\ mem' = NoLoop
        goto(pos) ==
            /\ mem' = [mem EXCEPT !.pos = pos,
                                  !.visited = mem.visited \cup {mem.pos}]
            /\ UNCHANGED <<file, log, pc>>
        body(header, tag_end) ==
            IF header.size = 0 THEN exit("result")
            ELSE IF tag_end.overflow /\ mem.checks THEN exit("panic")
            ELSE IF Huge(tag_end.value) \/ tag_end.value > Len(file)
            THEN exit("result")
            ELSE IF tag_end.value < mem.pos THEN exit("panic")
            ELSE IF header.box_type = BoxTypes.FREEFORM
                    /\ tag_end.value < mem.pos + header.header_size
            THEN exit("panic")
            ELSE goto(tag_end.value)
        read(header) ==
            IF ~header.ok THEN exit("result")
            ELSE body(header, add_usize(mem.pos, header.size))
    IN  /\ pc = "create_ilst_box"
        /\ IF mem.pos + 8 > Len(file) THEN exit("result")
           ELSE read(BoxHeader_read(file, mem.pos))
        /\ UNCHANGED <<orig, shape, bitVars>>

\* one iteration of the while loop of update_offsets_recursive with a
\* size_diff of 8.  The call on a container box is a new frame on the stack;
\* the loop that ends returns to the frame below, which goes on behind the
\* container.  data[pos] panics behind the end of the buffer.
update_offsets_recursive_iteration ==
    LET exit(outcome) ==
            IF mem.stack = <<>>
            THEN /\ log' = <<[op |-> pc, outcome |-> outcome]>>
                 /\ pc' = "idle" /\ file' = <<>>
                 /\ mem' = NoLoop
            ELSE /\ mem' = [mem EXCEPT !.pos = Head(mem.stack).pos,
                                       !.end = Head(mem.stack).end,
                                       !.stack = Tail(mem.stack)]
                 /\ UNCHANGED <<file, log, pc>>
        panic ==
            /\ log' = <<[op |-> pc, outcome |-> "panic"]>>
            /\ pc' = "idle" /\ file' = <<>>
            /\ mem' = NoLoop
        body(size, box_type) ==
            IF size = 0 \/ mem.pos + size > mem.end THEN exit("Ok")
            ELSE IF box_type \in {BoxTypes.STCO, BoxTypes.CO64}
            THEN /\ file' = update_offsets_recursive(file, mem.pos,
                                                     mem.pos + size, 8)
                 /\ mem' = [mem EXCEPT !.pos = mem.pos + size,
                                       !.visited = mem.visited \cup {mem.pos}]
                 /\ UNCHANGED <<log, pc>>
            ELSE IF box_type \in {BoxTypes.TRAK, BoxTypes.MDIA, BoxTypes.MINF,
                                  BoxTypes.STBL, BoxTypes.MOOV, BoxTypes.UDTA}
            THEN /\ mem' = [mem EXCEPT
                               !.pos = mem.pos + 8, !.end = mem.pos + size,
                               !.stack = <<[pos |-> mem.pos + size,
                                            end |-> mem.end]>> \o mem.stack,
                               !.visited = mem.visited \cup {mem.pos}]
                 /\ UNCHANGED <<file, log, pc>>
            ELSE /\ mem' = [mem EXCEPT !.pos = mem.pos + size,
                                       !.visited = mem.visited \cup {mem.pos}]
                 /\ UNCHANGED <<file, log, pc>>
    IN  /\ pc = "update_offsets_recursive"
        /\ IF mem.pos + 8 > mem.end THEN exit("Ok")
           ELSE IF mem.pos + 8 > Len(file) THEN panic
           ELSE body(be32(file, mem.pos), Slice(file, mem.pos + 4, mem.pos + 8))
        /\ UNCHANGED <<orig, shape, bitVars>>

NextWalk ==
    \/ Call
    \/ iterate_frames_iteration
    \/ read_ape_tag_iteration
    \/ find_box_iteration
    \/ find_box_in_container_iteration
    \/ parse_freeform_tag_iteration
    \/ create_ilst_box_iteration
    \/ update_offsets_recursive_iteration
SpecWalk == InitWalk /\ [][NextWalk]_vars

(***************************************************************************)
(* Reading the tags back.                                                  *)
(***************************************************************************)
\* read_replaygain_tags on the bytes of the file.  The slice of a "----" item
\* whose size is below its header's panics; no file of the model has one.
read_replaygain_tags(data) ==
    LET named(tag, name) == eq_ignore_ascii_case(tag.name, name)
        put(tags, tag) ==
            IF ~tag.ok \/ tag.namespace # ITUNES_NAMESPACE THEN tags
            ELSE IF named(tag, RG_TRACK_GAIN)
            THEN [tags EXCEPT !.track_gain = <<tag.value>>]
            ELSE IF named(tag, RG_TRACK_PEAK)
            THEN [tags EXCEPT !.track_peak = <<tag.value>>]
            ELSE IF named(tag, RG_ALBUM_GAIN)
            THEN [tags EXCEPT !.album_gain = <<tag.value>>]
            ELSE IF named(tag, RG_ALBUM_PEAK)
            THEN [tags EXCEPT !.album_peak = <<tag.value>>]
            ELSE tags
        item(tags, pos, h) ==
            IF h.box_type = BoxTypes.FREEFORM /\ h.size >= h.header_size
            THEN put(tags, parse_freeform_tag(
                               Slice(data, pos + h.header_size, pos + h.size)))
            ELSE tags
        RECURSIVE items(_, _, _)
        items(pos, end, tags) ==
            IF pos + 8 > end THEN tags
            ELSE
              LET step(h) ==
                      IF ~h.ok THEN tags
                      ELSE IF h.size = 0 THEN item(tags, pos, h)
                      ELSE items(pos + h.size, end, item(tags, pos, h))
              IN  step(BoxHeader_read(data, pos))
        in_ilst(ilst) ==
            IF ~ilst.ok THEN ReplayGainTags_new
            ELSE items(ilst.pos + ilst.header.header_size,
                       ilst.pos + ilst.header.header_size
                       + content_size(ilst.header),
                       ReplayGainTags_new)
        in_meta(meta) ==
            IF ~meta.ok THEN ReplayGainTags_new
            ELSE in_ilst(find_box_in_container(data,
                             meta.pos + meta.header.header_size + 4,
                             content_size(meta.header) - 4, BoxTypes.ILST))
        in_udta(udta) ==
            IF ~udta.ok THEN ReplayGainTags_new
            ELSE in_meta(find_box_in_container(data,
                             udta.pos + udta.header.header_size,
                             content_size(udta.header), BoxTypes.META))
        in_moov(moov) ==
            IF ~moov.ok THEN ReplayGainTags_new
            ELSE in_udta(find_box_in_container(data,
                             moov.pos + moov.header.header_size,
                             content_size(moov.header), BoxTypes.UDTA))
    IN  in_moov(find_box(data, BoxTypes.MOOV))

\* read_replaygain_tags on the file that a write or a delete has left
ReadReplayGainTags ==
    /\ log # <<>>
    /\ log[Len(log)].op \in {"write_replaygain_tags", "delete_replaygain_tags"}
    /\ log' = Append(log, [op |-> "read_replaygain_tags",
                           result |-> read_replaygain_tags(file)])
    /\ UNCHANGED <<file, orig, shape, bitVars, stepVars>>

NextRead ==
    \/ \E t \in TagChoices : WriteReplayGainTags(t)
    \/ DeleteReplayGainTags
    \/ ReadReplayGainTags
SpecRead == InitMp4 /\ [][NextRead]_vars

(***************************************************************************)
(* Properties.  Each is stated on the last one or two operations of the    *)
(* log: the log only grows, so every operation of every run is the last    *)
(* one in the state it leads to.                                           *)
(***************************************************************************)
Last == log[Len(log)]
Clamp(v) == Min2(255, Max2(0, v))

\* C1: apply_gain(f, s) followed by apply_gain(f, -s), s # 0, restores every
\* global_gain field of the file when no field saturates in either call.
C1_ApplyThenInverseRestores ==
    Len(log) >= 2 =>
      LET a == log[Len(log) - 1]
          b == Last
      IN  (/\ a.op = "apply_gain" /\ b.op = "apply_gain"
           /\ a.ok /\ b.ok
           /\ a.steps # 0 /\ b.steps = -a.steps
           /\ ~a.sat /\ ~b.sat)
          => Fields(file, shape) = Fields(a.before, shape)

C1_Witness ==
    /\ Len(log) >= 2
    /\ log[Len(log) - 1].op = "apply_gain" /\ Last.op = "apply_gain"
    /\ log[Len(log) - 1].steps # 0 /\ Last.steps = -log[Len(log) - 1].steps
    /\ ~log[Len(log) - 1].sat /\ ~Last.sat
    /\ Last.val >= 2
    /\ Fields(Last.before, shape) # Fields(file, shape)
    /\ Fields(file, shape) = Fields(log[Len(log) - 1].before, shape)

\* C3: apply_gain(f, 0) returns 0 modified frames, makes no write and leaves
\* the file byte-for-byte identical.
C3_ZeroStepsNoWrite ==
    (Len(log) >= 1 /\ Last.op = "apply_gain" /\ Last.steps = 0)
    => (Last.ok /\ Last.val = 0 /\ Last.nwrites = 0 /\ file = Last.before)

C3_Witness ==
    /\ Len(log) >= 2 /\ Last.op = "apply_gain" /\ Last.steps = 0
    /\ log[Len(log) - 1].op = "apply_gain" /\ log[Len(log) - 1].nwrites = 1
    /\ file = Last.before /\ file # orig

\* C4: apply_gain(f, s), s # 0, sets every global_gain field of every accepted
\* frame to min(255, max(0, old + s)); when no field saturates, analyze then
\* reports min_gain + s and max_gain + s.
C4_SaturatingRewrite ==
    (Len(log) >= 1 /\ Last.op = "apply_gain" /\ Last.steps # 0)
    => LET frames == iterate_frames(Last.before)
           a0 == analyze(Last.before)
           a1 == analyze(file)
       IN  /\ \A i \in 1..Len(frames) :
                \A k \in 1..Len(frames[i].locations) :
                   read_gain_at(file, frames[i].locations[k])
                   = Clamp(read_gain_at(Last.before, frames[i].locations[k])
                           + Last.steps)
           /\ (a0.ok /\ ~Last.sat)
              => (/\ a1.ok
                  /\ a1.min_gain = a0.min_gain + Last.steps
                  /\ a1.max_gain = a0.max_gain + Last.steps)

\* a call that clamps some field at 255 and leaves another below it
C4_Witness ==
    /\ Len(log) >= 1 /\ Last.op = "apply_gain" /\ Last.steps = 2
    /\ Last.sat /\ Last.val >= 2
    /\ analyze(Last.before).ok
    /\ analyze(Last.before).max_gain = 255
    /\ analyze(file).max_gain = 255
    /\ analyze(file).min_gain = analyze(Last.before).min_gain + 2

\* C2: after apply_gain_with_undo(f, s1), ..., apply_gain_with_undo(f, sn) with
\* nonzero steps and no saturation, on a file with no stored undo value,
\* undo_gain(f) restores every global_gain field of every frame of the file.
C2_UndoRestoresEveryField ==
    (/\ Len(log) >= 2
     /\ Last.op = "undo_gain" /\ Last.ok /\ ~Last.sat
     /\ \A i \in 1..(Len(log) - 1) :
           /\ log[i].op = "apply_gain_with_undo"
           /\ log[i].ok /\ log[i].steps # 0 /\ ~log[i].sat
     /\ shape.trailer \in {"none", "id3v1", "ape"})
    => Fields(file, shape) = Fields(orig, shape)

(***************************************************************************)
(* Reading a stored value back: the comma-separated fields of a tag value. *)
(***************************************************************************)
RECURSIVE SplitComma(_, _)
SplitComma(v, cur) ==
    IF Len(v) = 0 THEN <<cur>>
    ELSE IF v[1] = 44 THEN <<cur>> \o SplitComma(Tail(v), <<>>)
    ELSE SplitComma(Tail(v), Append(cur, v[1]))

StoredValue(data, key) ==
    LET rd == read_ape_tag(data)
    IN  IF rd.ok THEN tag_get(rd.tag, key) ELSE None

RECURSIVE SumSteps(_)
SumSteps(i) == IF i = 0 THEN 0 ELSE log[i].steps + SumSteps(i - 1)

OnlyUndoCalls ==
    \A i \in 1..Len(log) :
       log[i].op = "apply_gain_with_undo" /\ log[i].ok /\ log[i].steps # 0

MinMaxPair(v) ==
    LET parts == SplitComma(v.value, <<>>)
    IN  <<parse_i32(parts[1]), parse_i32(parts[2])>>

RemovesUndo(e) == e.op = "undo_gain" /\ e.ok /\ e.applied # 0

\* C7: the first apply_gain_with_undo on a file writes MP3GAIN_MINMAX as the
\* min and max gain analyze reported before the call; no later call changes
\* the value, which stays until undo_gain removes it.
C7_MinMaxWrittenOnce ==
    Len(log) >= 1 =>
      LET m0 == StoredValue(Last.before, TAG_MP3GAIN_MINMAX)
          m1 == StoredValue(file, TAG_MP3GAIN_MINMAX)
          a0 == analyze(Last.before)
      IN  /\ (/\ Last.op = "apply_gain_with_undo" /\ Last.ok
              /\ Last.steps # 0 /\ ~m0.ok)
             => (/\ m1.ok
                 /\ MinMaxPair(m1) = << [ok |-> TRUE, value |-> a0.min_gain],
                                        [ok |-> TRUE, value |-> a0.max_gain] >>)
          /\ (m0.ok /\ ~RemovesUndo(Last)) => m1 = m0

\* a second call that sees other min/max values and keeps the stored ones
C7_Witness ==
    /\ Len(log) >= 2
    /\ log[1].op = "apply_gain_with_undo" /\ log[1].ok
    /\ Last.op = "apply_gain_with_undo" /\ Last.ok /\ Last.steps # 0
    /\ ~StoredValue(orig, TAG_MP3GAIN_MINMAX).ok
    /\ StoredValue(file, TAG_MP3GAIN_MINMAX).ok
    /\ MinMaxPair(StoredValue(file, TAG_MP3GAIN_MINMAX))
       = << [ok |-> TRUE, value |-> analyze(orig).min_gain],
            [ok |-> TRUE, value |-> analyze(orig).max_gain] >>
    /\ analyze(Last.before).min_gain # analyze(orig).min_gain

\* what the initial file is made of besides an APEv2 tag
BareLen(sh) ==
    AudioStart(sh) + sh.n * FrameSize(sh)
    + (IF sh.trailer \in {"id3v1", "foreign+id3v1"} THEN 128 ELSE 0)

NoPreamble(data) ==
    \A p \in 0..(Len(data) - 8) : Slice(data, p, p + 8) # APE_PREAMBLE

OtherItems(tag) ==
    LET other(item) ==
           to_uppercase(item.key) \notin {TAG_MP3GAIN_UNDO, TAG_MP3GAIN_MINMAX}
    IN  SelectSeq(tag, other)

\* C8: after undo_gain succeeds with a nonzero stored undo value the tag has
\* neither MP3GAIN_UNDO nor MP3GAIN_MINMAX: the APEv2 tag is gone entirely if
\* no other item remains, otherwise every other item is kept with its value;
\* a second undo_gain on the file fails.
C8_UndoRemovesKeys ==
    (Len(log) >= 1 /\ Last.op = "undo_gain" /\ Last.ok /\ Last.applied # 0)
    => LET others == OtherItems(read_ape_tag(Last.before).tag)
           rd == read_ape_tag(file)
       IN  /\ IF others = <<>>
              THEN /\ ~rd.ok
                   /\ NoPreamble(file)
                   /\ Len(file) = BareLen(shape)
              ELSE /\ rd.ok
                   /\ rd.tag = others
           /\ ~StoredValue(file, TAG_MP3GAIN_UNDO).ok
           /\ ~StoredValue(file, TAG_MP3GAIN_MINMAX).ok
           /\ ~undo_gain(file).ok

\* an undo that keeps the foreign item of a tag it otherwise empties
C8_Witness ==
    /\ Len(log) >= 2 /\ Last.op = "undo_gain" /\ Last.ok /\ Last.applied # 0
    /\ log[1].op = "apply_gain_with_undo" /\ log[1].ok
    /\ StoredValue(Last.before, TAG_MP3GAIN_MINMAX).ok
    /\ read_ape_tag(file).ok
    /\ read_ape_tag(file).tag = <<OtherItem>>
    /\ ~undo_gain(file).ok

\* C9: undo_gain on a file with no APEv2 tag, or whose tag has no MP3GAIN_UNDO
\* value, fails naming that condition and leaves the file unchanged; with a
\* stored undo value of 0 it succeeds with 0 frames and leaves the file
\* unchanged.
C9_UndoNothingToUndo ==
    (Len(log) >= 1 /\ Last.op = "undo_gain")
    => LET rd == read_ape_tag(Last.before)
           v == StoredValue(Last.before, TAG_MP3GAIN_UNDO)
           unchanged == file = Last.before /\ Last.nwrites = 0
       IN  /\ find_ape_footer(Last.before) = -1
              => (/\ ~Last.ok /\ unchanged
                  /\ Last.err = "No APE tag found - cannot undo")
           /\ (rd.ok /\ ~v.ok)
              => (/\ ~Last.ok /\ unchanged
                  /\ Last.err = "No MP3GAIN_UNDO tag found - cannot undo")
           /\ (rd.ok /\ v.ok /\ get_undo_gain(rd.tag) = [ok |-> TRUE, value |-> 0])
              => (Last.ok /\ Last.val = 0 /\ unchanged)

\* undo_gain on a file whose stored undo value two calls brought back to 0
C9_Witness ==
    /\ Len(log) = 3 /\ Last.op = "undo_gain" /\ Last.ok /\ Last.val = 0
    /\ log[1].op = "apply_gain_with_undo" /\ log[1].steps = 2 /\ log[1].ok
    /\ log[2].op = "apply_gain_with_undo" /\ log[2].steps = -2 /\ log[2].ok
    /\ StoredValue(file, TAG_MP3GAIN_UNDO)
       = [ok |-> TRUE, value |-> <<43, 48, 48, 48, 44, 43, 48, 48, 48, 44, 78>>]
    /\ file = Last.before

\* C10: when apply_gain, apply_gain_with_undo or undo_gain returns success,
\* the step has been applied to every global_gain field of every frame that
\* analyze counts in the file it was given (tagged or not), and the number of
\* frames returned is that count.
C10_AppliedToEveryCountedFrame ==
    (Len(log) >= 1 /\ Last.ok /\ Last.applied # 0)
    => LET frames == iterate_frames(Last.before)
           a0 == analyze(Last.before)
       IN  /\ Last.val = Len(frames)
           /\ a0.ok => Last.val = a0.frame_count
           /\ \A i \in 1..Len(frames) :
                \A k \in 1..Len(frames[i].locations) :
                   read_gain_at(file, frames[i].locations[k])
                   = Clamp(read_gain_at(Last.before, frames[i].locations[k])
                           + Last.applied)

\* an undo on a tagged file (APEv2 and ID3v1) that rewrites a counted frame
C10_Witness ==
    /\ Len(log) >= 1 /\ Last.op = "undo_gain" /\ Last.ok /\ Last.applied = -2
    /\ shape.trailer = "foreign+id3v1"
    /\ Last.val >= 1
    /\ analyze(Last.before).ok
    /\ analyze(Last.before).frame_count = Last.val
    /\ Fields(file, shape) # Fields(Last.before, shape)

\* C5 (as claimed): for every buffer, every byte offset inside it, every bit
\* offset 0..7 and every value v, read_gain_at after write_gain_at(v) at the
\* same location returns v, also at the last byte with a nonzero bit offset.
C5_RoundTripEverywhere == bpc = "read" => got = val

\* C5 (amended): the round trip returns v when the bit offset is 0 or a byte
\* follows the location's byte; at the last byte of the buffer with a nonzero
\* bit offset b only the high 8 - b bits of v are stored, and the read
\* returns v with its low b bits cleared.
C5_RoundTripWhereStored ==
    bpc = "read" =>
      IF loc.bit_offset = 0 \/ loc.byte_offset + 1 < Len(buf)
      THEN got = val
      ELSE got = (val \div (2 ^ loc.bit_offset)) * (2 ^ loc.bit_offset)

\* the final-byte edge case: 0xFF written at bit 3 of the last byte
C5_Witness ==
    /\ bpc = "read"
    /\ loc.byte_offset = Len(buf) - 1 /\ loc.bit_offset = 3
    /\ val = 255 /\ got = 248

\* what the last call of the log leaves on disk when it runs to its end
PostState ==
    IF Last.op = "undo_gain" THEN undo_gain(Last.before).data
    ELSE apply_gain_with_undo(Last.before, Last.steps).data

\* C11: the gain change and the undo-tag change of apply_gain_with_undo and
\* of undo_gain reach the disk together: whenever the process stops, the
\* file is in its pre-operation or in its post-operation state.
C11_GainAndTagWrittenTogether ==
    (pc = "stopped" /\ Len(log) >= 1)
    => (file = Last.before \/ file = PostState)

\* the step-wise calls, run to their end, leave what the whole calls leave
C11_StepsAgreeWithCalls ==
    (pc = "idle" /\ Len(log) >= 1) => file = PostState

EndsWith(data, tail) ==
    Len(data) >= Len(tail) /\ Slice(data, Len(data) - Len(tail), Len(data)) = tail

\* the file ends with a legacy 128-byte tag
HasLegacyTag(data) ==
    Len(data) >= 128 /\ Slice(data, Len(data) - 128, Len(data) - 125) = TAG

\* the file's tail is serialize_ape_tag(tag), alone or followed by a
\* 128-byte ID3v1 tag
TailIsTag(data, tag) ==
    \/ EndsWith(data, serialize_ape_tag(tag))
    \/ /\ HasLegacyTag(data)
       /\ EndsWith(Slice(data, 0, Len(data) - 128), serialize_ape_tag(tag))

\* the value the last set call for a key gave it
RECURSIVE LastSet(_, _)
LastSet(key_upper, i) ==
    IF i = 0 THEN None
    ELSE IF log[i].op = "set" /\ to_uppercase(log[i].key) = key_upper
    THEN [ok |-> TRUE, value |-> log[i].value]
    ELSE LastSet(key_upper, i - 1)

CountPreambles(data) ==
    Cardinality({p \in 0..(Len(data) - 8) : Slice(data, p, p + 8) = APE_PREAMBLE})

\* where the footer's size and header-present flag put the end of the audio
AudioEnd(data) ==
    find_ape_footer(data) + 32 - read_u32_le(data, find_ape_footer(data) + 12)
    - (IF At(data, find_ape_footer(data) + 23) >= 128 THEN 32 ELSE 0)

\* C13: remove_ape_tag ends the audio data at footer_start + 32 - tag_size
\* - (32 if the footer's header-present flag is set); write_ape_tag then
\* delete_ape_tag on a file with no APEv2 tag restores its bytes, and
\* writing a tag over an existing tag leaves exactly one tag.
C13_RemoveUsesSizeAndFlag ==
    (Len(log) >= 1 /\ Last.op \in {"write_ape_tag", "delete_ape_tag"})
    => /\ find_ape_footer(Last.before) # -1
          => (/\ Len(remove_ape_tag(Last.before))
                 = AudioEnd(Last.before)
                   + (IF HasLegacyTag(Last.before) THEN 128 ELSE 0)
              /\ Slice(remove_ape_tag(Last.before), 0, AudioEnd(Last.before))
                 = Slice(Last.before, 0, AudioEnd(Last.before))
              /\ NoPreamble(remove_ape_tag(Last.before)))
       /\ (/\ Last.op = "delete_ape_tag" /\ Len(log) >= 2
           /\ log[Len(log) - 1].op = "write_ape_tag"
           /\ find_ape_footer(log[Len(log) - 1].before) = -1)
          => file = log[Len(log) - 1].before
       /\ (/\ Last.op = "write_ape_tag" /\ ~is_empty(mem)
           /\ find_ape_footer(Last.before) # -1)
          => (/\ CountPreambles(file) = 2
              /\ read_ape_tag(file) = [ok |-> TRUE, tag |-> mem]
              /\ Len(file) = BareLen(shape) + Len(serialize_ape_tag(mem))
              /\ NoPreamble(delete_ape_tag(file)))

\* a tag written over the tag this model wrote before, on a file that
\* started without one and ends with an ID3v1 tag, then deleted again
C13_Witness ==
    /\ Len(log) >= 3 /\ Last.op = "delete_ape_tag"
    /\ log[Len(log) - 1].op = "write_ape_tag"
    /\ shape.trailer = "id3v1" /\ ~is_empty(mem)
    /\ find_ape_footer(log[Len(log) - 1].before) = -1
    /\ find_ape_footer(Last.before) # -1
    /\ AudioEnd(Last.before) = Len(orig) - 128
    /\ file = orig

\* C14: when the file ends with a legacy 128-byte tag, write_ape_tag and
\* delete_ape_tag leave those 128 bytes as the last 128 bytes of the file;
\* write_ape_tag puts the rewritten APEv2 tag immediately before them, and
\* the legacy tag is neither duplicated nor dropped.
C14_LegacyTagStaysLast ==
    (/\ Len(log) >= 1 /\ Last.op \in {"write_ape_tag", "delete_ape_tag"}
     /\ HasLegacyTag(Last.before))
    => /\ Len(file) >= 128
       /\ Slice(file, Len(file) - 128, Len(file))
          = Slice(Last.before, Len(Last.before) - 128, Len(Last.before))
       /\ Len(file) = BareLen(shape)
                      + (IF Last.op = "write_ape_tag"
                         THEN Len(serialize_ape_tag(mem)) ELSE 0)
       /\ Slice(file, 0, BareLen(shape) - 128) = Slice(orig, 0, BareLen(shape) - 128)
       /\ Last.op = "write_ape_tag"
          => EndsWith(Slice(file, 0, Len(file) - 128), serialize_ape_tag(mem))

\* a tag written over a foreign footer-only tag that precedes an ID3v1 tag
C14_Witness ==
    /\ Len(log) >= 1 /\ Last.op = "write_ape_tag"
    /\ shape.trailer = "foreign+id3v1" /\ Last.before = orig
    /\ Len(mem) = 2
    /\ HasLegacyTag(file)
    /\ Len(file) = BareLen(shape) + Len(serialize_ape_tag(mem))
    /\ CountPreambles(file) = 2

\* where the side information puts the global_gain field of granule gr,
\* channel ch (0 left, 1 right) of a two-channel frame
StereoFieldLoc(frame, gr, ch) ==
    LET mpeg1 == frame.header.version = "Mpeg1"
        bit == (IF mpeg1 THEN 20 ELSE 10)
               + (2 * gr + ch) * (IF mpeg1 THEN 59 ELSE 63) + 21
        start == frame.pos + (IF frame.header.has_crc THEN 6 ELSE 4)
    IN  [byte_offset |-> start + (bit \div 8), bit_offset |-> bit % 8]

\* C15: apply_gain_channel on a mono file fails with an error naming the
\* mono condition and leaves the file unchanged; on a stereo file it changes
\* only the gain fields of the chosen channel (left for Left) in each frame
\* and leaves every gain field of the other channel unchanged.
C15_OnlyTheChosenChannel ==
    (Len(log) >= 1 /\ Last.op = "apply_gain_channel" /\ Last.steps # 0)
    => LET frames == iterate_frames(Last.before)
           c == IF Last.channel = "Left" THEN 0 ELSE 1
       IN  IF Len(frames) > 0 /\ frames[1].header.channel_mode = "Mono"
           THEN /\ ~Last.ok
                /\ Last.err = "Cannot apply channel-specific gain to mono file"
                /\ file = Last.before /\ Last.nwrites = 0
           ELSE /\ Last.ok /\ Last.val = Len(frames)
                /\ \A i \in 1..Len(frames) :
                      \A gr \in 0..(granule_count(frames[i].header) - 1) :
                         /\ read_gain_at(file, StereoFieldLoc(frames[i], gr, c))
                            = Clamp(read_gain_at(Last.before,
                                       StereoFieldLoc(frames[i], gr, c))
                                    + Last.steps)
                         /\ read_gain_at(file, StereoFieldLoc(frames[i], gr, 1 - c))
                            = read_gain_at(Last.before,
                                 StereoFieldLoc(frames[i], gr, 1 - c))

\* Left on a two-granule stereo frame: both left fields move, no right one
C15_Witness ==
    /\ Len(log) >= 1 /\ Last.op = "apply_gain_channel"
    /\ Last.channel = "Left" /\ Last.steps = 2 /\ Last.ok /\ Last.val >= 1
    /\ shape.kind = "m1j" /\ shape.palette = <<10, 20, 15>>
    /\ Last.before = orig
    /\ Fields(orig, shape)[1] = 10 /\ Fields(file, shape)[1] = 12
    /\ Fields(orig, shape)[3] = 15 /\ Fields(file, shape)[3] = 17
    /\ Fields(file, shape)[2] = 20 /\ Fields(file, shape)[4] = 10

\* the same call on a mono file
C15_WitnessMono ==
    /\ Len(log) >= 1 /\ Last.op = "apply_gain_channel"
    /\ Last.channel = "Left" /\ Last.steps = 2 /\ ~Last.ok
    /\ shape.kind = "m2m" /\ file = Last.before

(***************************************************************************)
(* The MP4 box editor.  The boxes of a file are found here by their type   *)
(* bytes, which occur once in the files of the model (but for "meta" and   *)
(* "udta", where the first occurrence counts), not by the editor's walk.   *)
(***************************************************************************)
TypeAt(f, type) ==
    LET at == {p \in 0..(Len(f) - 8) : Slice(f, p + 4, p + 8) = type}
    IN  CHOOSE p \in at : \A q \in at : p <= q
HasType(f, type) == \E p \in 0..(Len(f) - 8) : Slice(f, p + 4, p + 8) = type

TableAt(f) ==
    IF HasType(f, BoxTypes.STCO) THEN TypeAt(f, BoxTypes.STCO)
    ELSE TypeAt(f, BoxTypes.CO64)
EntryWidth(f) == IF HasType(f, BoxTypes.STCO) THEN 4 ELSE 8
\* entry k of the chunk-offset table: the bytes above the low word, and the
\* low word as a number
ChunkOffset(f, k) ==
    LET at == TableAt(f) + 16 + k * EntryWidth(f)
    IN  [high |-> Slice(f, at, at + EntryWidth(f) - 4),
         low |-> be32(f, at + EntryWidth(f) - 4)]
MoovFirst(f) == TypeAt(f, BoxTypes.MOOV) < TypeAt(f, BoxTypes.MDAT)
WroteTags ==
    /\ Len(log) >= 1
    /\ Last.op \in {"write_replaygain_tags", "delete_replaygain_tags"}
    /\ Last.ok

\* C16: after write_replaygain_tags on a file whose moov precedes its mdat,
\* every stco and co64 entry inside moov is its old value plus the change of
\* the file length, in each rewrite case; when the length is unchanged or
\* mdat precedes moov, no entry changes.
C16_ChunkOffsetsShifted ==
    WroteTags =>
       \A k \in 0..1 :
          /\ ChunkOffset(file, k).high = ChunkOffset(Last.before, k).high
          /\ ChunkOffset(file, k).low
             = ChunkOffset(Last.before, k).low
               + (IF MoovFirst(Last.before)
                  THEN Len(file) - Len(Last.before) ELSE 0)

\* what holds of the code: the same, for a moov box with a 32-bit size
C16_ShiftedUnderShortHeader ==
    (WroteTags /\ shape.moov_header = 8) => C16_ChunkOffsetsShifted

\* a moov box with a 64-bit size before mdat: the file grew, the table did not
\* follow
C16_StaleOffsets ==
    /\ WroteTags /\ shape.moov_header = 16 /\ MoovFirst(Last.before)
    /\ Len(file) > Len(Last.before)
    /\ \A k \in 0..1 : ChunkOffset(file, k) = ChunkOffset(Last.before, k)

\* the three rewrite cases with a 32-bit moov size, each growing the file and
\* moving the entries
C16_WitnessShift ==
    /\ WroteTags /\ shape.moov_header = 8 /\ MoovFirst(Last.before)
    /\ Len(file) > Len(Last.before)
    /\ ChunkOffset(file, 0).low
       = ChunkOffset(Last.before, 0).low + Len(file) - Len(Last.before)

\* the items of the generated ilst that are no ReplayGain items, in order
KeptItems(layout) ==
    IF layout = "ilst" THEN Mp4Items.nam \o Mp4Items.tool
    ELSE IF layout = "ilst with ReplayGain"
    THEN Mp4Items.nam \o Mp4Items.foreign \o Mp4Items.tool
    ELSE <<>>

\* where the box at p ends, by its own size field
BoxEnd(f, p) == p + (IF be32(f, p) = 1 THEN be32(f, p + 12) ELSE be32(f, p))
\* ilst exists: the first udta lies in moov, the first meta in it, the first
\* ilst in that
HasIlst(f) ==
    LET inside(child, parent) ==
            parent < child /\ BoxEnd(f, child) <= BoxEnd(f, parent)
    IN  /\ HasType(f, BoxTypes.MOOV) /\ HasType(f, BoxTypes.UDTA)
        /\ HasType(f, BoxTypes.META) /\ HasType(f, BoxTypes.ILST)
        /\ inside(TypeAt(f, BoxTypes.UDTA), TypeAt(f, BoxTypes.MOOV))
        /\ inside(TypeAt(f, BoxTypes.META), TypeAt(f, BoxTypes.UDTA))
        /\ inside(TypeAt(f, BoxTypes.ILST), TypeAt(f, BoxTypes.META))
IlstContent(f) ==
    Slice(f, TypeAt(f, BoxTypes.ILST) + 8, BoxEnd(f, TypeAt(f, BoxTypes.ILST)))
\* the items that the tags set, in the order track gain, track peak, album
\* gain, album peak
NewItems(tags) ==
    LET item(field, name) ==
            IF field = <<>> THEN <<>>
            ELSE serialize_freeform_tag([namespace |-> ITUNES_NAMESPACE,
                                         name |-> name, value |-> field[1]])
    IN  item(tags.track_gain, RG_TRACK_GAIN) \o item(tags.track_peak, RG_TRACK_PEAK)
        \o item(tags.album_gain, RG_ALBUM_GAIN) \o item(tags.album_peak, RG_ALBUM_PEAK)
\* the file without its ilst box, and with the size fields of moov, udta and
\* meta and the entries of the chunk-offset table blanked
OutsideIlst(f) ==
    LET blank(ilst, moov, udta, meta, table) ==
            LET hole(k) ==
                    \/ \E p \in {moov, udta, meta} : k >= p /\ k < p + 4
                    \/ k >= table + 16 /\ k < BoxEnd(f, table)
                byte(k) == IF hole(k) THEN 0 ELSE At(f, k)
            IN  [k \in 1..ilst |-> byte(k - 1)]
                \o [k \in 1..(Len(f) - BoxEnd(f, ilst)) |->
                       byte(BoxEnd(f, ilst) + k - 1)]
    IN  blank(TypeAt(f, BoxTypes.ILST), TypeAt(f, BoxTypes.MOOV),
              TypeAt(f, BoxTypes.UDTA), TypeAt(f, BoxTypes.META), TableAt(f))

C18_ZeroFramesFail ==
    (/\ Len(log) >= 1 /\ Last.op = "apply_gain" /\ Last.steps # 0
     /\ Len(iterate_frames(Last.before)) = 0) =>
       /\ ~analyze(Last.before).ok
       /\ ~Last.ok
       /\ file = Last.before

\* what the code does on such a file: analyze fails, apply_gain reports
\* success with no frame modified and writes the bytes back as they were
C18_ApplyGainReportsSuccess ==
    /\ Len(log) >= 1 /\ Last.op = "apply_gain" /\ Last.steps = 2
    /\ Len(iterate_frames(Last.before)) = 0
    /\ ~analyze(Last.before).ok
    /\ analyze(Last.before).err = "No valid MP3 frames found"
    /\ Last.ok /\ Last.val = 0 /\ Last.nwrites = 1
    /\ file = Last.before

\* C19: for every file that analyze accepts, headroom_steps is 255 - max_gain,
\* headroom_db is headroom_steps * 1.5 (six quarters of a dB a step), and
\* min_gain <= avg_gain <= max_gain.
C19_HeadroomAndAverage ==
    (Len(log) >= 1 /\ Last.op = "analyze" /\ Last.result.ok) =>
       /\ Last.result.headroom_steps = 255 - Last.result.max_gain
       /\ 2 * Last.result.headroom_db = 3 * 4 * Last.result.headroom_steps
       /\ Last.result.avg_gain.den > 0
       /\ Last.result.min_gain * Last.result.avg_gain.den
          <= Last.result.avg_gain.num
       /\ Last.result.avg_gain.num
          <= Last.result.max_gain * Last.result.avg_gain.den

\* two MPEG2 stereo frames after apply_gain(2): gains 12, 22, 17, 12 of which
\* the scanner reads all four
C19_Witness ==
    /\ Len(log) = 2 /\ log[1].op = "apply_gain" /\ log[1].steps = 2
    /\ Last.op = "analyze" /\ Last.result.ok
    /\ shape.kind = "m2s" /\ shape.n = 2 /\ shape.trailer = "none"
    /\ shape.palette = <<10, 20, 15>>
    /\ Last.result.min_gain = 12 /\ Last.result.max_gain = 22
    /\ Last.result.avg_gain = [num |-> 63, den |-> 4]
    /\ Last.result.headroom_steps = 233
    /\ Last.result.headroom_db = 1398

\* C20: db_to_steps(steps_to_db(n)) = n for every step count n, and
\* db_to_steps rounds to the nearest step, a half away from zero (2.25 dB to 2
\* steps, 0.75 dB to 1 step, -0.75 dB to -1 step).  Decibels are counted in
\* quarters of a dB, a step is six of them.
C20_RoundTripAndNearest ==
    \A i \in 1..Len(log) :
       log[i].op = "db_to_steps" =>
          /\ (i > 1 /\ log[i - 1].op = "steps_to_db"
                    /\ log[i].arg = log[i - 1].result)
                => log[i].result = log[i - 1].arg
          \* no step is nearer
          /\ \A s \in (log[i].result - 1)..(log[i].result + 1) :
                (IF log[i].arg >= 6 * log[i].result
                 THEN log[i].arg - 6 * log[i].result
                 ELSE 6 * log[i].result - log[i].arg)
                <= (IF log[i].arg >= 6 * s
                    THEN log[i].arg - 6 * s ELSE 6 * s - log[i].arg)
          \* of two steps equally near, the one farther from zero
          /\ (log[i].arg % 6 = 3) =>
                (IF log[i].arg >= 0 THEN 6 * log[i].result > log[i].arg
                 ELSE 6 * log[i].result < log[i].arg)
          /\ log[i].arg = 9 => log[i].result = 2
          /\ log[i].arg = 3 => log[i].result = 1
          /\ log[i].arg = -3 => log[i].result = -1

\* 2.25 dB converted, then -3 steps taken to decibels and back
C20_Witness ==
    /\ Len(log) = 3
    /\ log[1] = [op |-> "db_to_steps", arg |-> 9, result |-> 2]
    /\ log[2] = [op |-> "steps_to_db", arg |-> -3, result |-> -18]
    /\ log[3] = [op |-> "db_to_steps", arg |-> -18, result |-> -3]

(***************************************************************************)
(* The loudness analyzer.  The tracks of an album are the entries of the   *)
(* log before the album's; the buckets any of them counts are few.         *)
(***************************************************************************)
AlbumAnalyzed == log # <<>> /\ Last.op = "analyze_album"
TrackHistogram(k) == log[k].internal.histogram
TrackBuckets == UNION {BagToSet(TrackHistogram(k)) : k \in 1..(Len(log) - 1)}
\* the windows the first n tracks count in bucket i, and in all buckets
RECURSIVE WindowsIn(_, _)
WindowsIn(i, n) ==
    IF n = 0 THEN 0 ELSE CopiesIn(i, TrackHistogram(n)) + WindowsIn(i, n - 1)
RECURSIVE WindowsOf(_)
WindowsOf(n) ==
    IF n = 0 THEN 0 ELSE BagCardinality(TrackHistogram(n)) + WindowsOf(n - 1)
\* the windows of all tracks in the buckets from i upwards
WindowsFrom(i) ==
    Cardinality({w \in TrackBuckets \X (1..WindowsOf(Len(log) - 1)) :
                    w[1] >= i /\ w[2] <= WindowsIn(w[1], Len(log) - 1)})
\* the highest bucket with `threshold` windows of all tracks in it or above
PercentileBucket(threshold) ==
    CHOOSE i \in TrackBuckets :
        /\ WindowsFrom(i) >= threshold
        /\ \A j \in TrackBuckets : WindowsFrom(j) >= threshold => j <= i
RECURSIVE SumLoudness(_)
SumLoudness(n) ==
    IF n = 0 THEN 0 ELSE log[n].internal.result.loudness_db + SumLoudness(n - 1)

C24_EveryWindowCounted ==
    /\ mem.fed % WindowSamples = 0 =>
          /\ mem.analyzer.lsum = 0 /\ mem.analyzer.rsum = 0
          /\ mem.analyzer.totsamp = 0
    /\ BagCardinality(mem.analyzer.histogram) = mem.fed \div WindowSamples
    /\ (log # <<>> /\ Last.op = "analyze_track") =>
          BagCardinality(Last.internal.histogram)
          = (Last.fed + WindowSamples - 1) \div WindowSamples

\* a window of silence has been completed and the histogram is still empty
C24_SilentWindowDropped ==
    /\ pc = "decoding"
    /\ mem.fed = WindowSamples
    /\ mem.analyzer.totsamp = 0
    /\ mem.analyzer.histogram = EmptyBag

\* C25: get_loudness of a histogram with T > 0 windows is (i - 7000) / 100 for
\* the highest bucket i with ceil(T * 0.05) windows in it or above, 1 for
\* T = 20; of an empty histogram it is -70.
C25_PercentileOfExactProduct ==
    AlbumAnalyzed =>
       LET T == WindowsOf(Len(log) - 1)
       IN  Last.album.album_loudness_db
           = (IF T = 0 THEN -7000
              ELSE PercentileBucket((T + 19) \div 20) - HISTOGRAM_OFFSET)

\* twenty windows, one of them in the highest bucket: get_loudness passes it
\* over
C25_TopWindowPassedOver ==
    /\ AlbumAnalyzed
    /\ WindowsOf(Len(log) - 1) = 20
    /\ \E i \in TrackBuckets :
          /\ \A j \in TrackBuckets : j <= i
          /\ WindowsIn(i, Len(log) - 1) = 1
          /\ Last.album.album_loudness_db < i - HISTOGRAM_OFFSET

\* the boxes from p up to `end` follow one another and the last ends at `end`
RECURSIVE Tiles(_, _, _)
Tiles(f, p, end) ==
    \/ p = end
    \/ /\ p + 8 <= end
       /\ BoxEnd(f, p) >= p + 8 /\ BoxEnd(f, p) <= end
       /\ Tiles(f, BoxEnd(f, p), end)
\* the first ilst of the file and the boxes around it: the meta box that
\* begins last before it, the first udta and moov
IlstPath(f) ==
    [moov |-> TypeAt(f, BoxTypes.MOOV), udta |-> TypeAt(f, BoxTypes.UDTA),
     meta |-> CHOOSE p \in 0..TypeAt(f, BoxTypes.ILST) :
                 /\ Slice(f, p + 4, p + 8) = BoxTypes.META
                 /\ \A q \in (p + 1)..TypeAt(f, BoxTypes.ILST) :
                       Slice(f, q + 4, q + 8) # BoxTypes.META,
     ilst |-> TypeAt(f, BoxTypes.ILST)]
\* moov, udta, meta and ilst lie in one another and each one's content is a
\* row of boxes
PathNested(f) ==
    LET p == IlstPath(f)
        inside(child, parent) ==
            parent < child /\ BoxEnd(f, child) <= BoxEnd(f, parent)
    IN  /\ HasType(f, BoxTypes.UDTA) /\ HasType(f, BoxTypes.META)
        /\ HasType(f, BoxTypes.ILST)
        /\ BoxEnd(f, p.moov) <= Len(f)
        /\ inside(p.udta, p.moov) /\ inside(p.meta, p.udta)
        /\ inside(p.ilst, p.meta)
        /\ Tiles(f, p.moov + (IF be32(f, p.moov) = 1 THEN 16 ELSE 8),
                 BoxEnd(f, p.moov))
        /\ Tiles(f, p.udta + 8, BoxEnd(f, p.udta))
        /\ Tiles(f, p.meta + 12, BoxEnd(f, p.meta))
        /\ Tiles(f, p.ilst + 8, BoxEnd(f, p.ilst))

\* C22: after write_replaygain_tags the 32-bit size field of moov, of udta
\* when it existed and of meta when ilst existed is its old value plus the
\* change of the file length; in the result moov, udta, meta and ilst end
\* inside their parents and each parent's content is the row of its child
\* boxes.
C22_AncestorSizesFollow ==
    WroteTags =>
       LET before == Last.before
           delta == Len(file) - Len(before)
           grown(p) == be32(file, p) = be32(before, p) + delta
       IN  /\ grown(TypeAt(before, BoxTypes.MOOV))
           /\ HasType(before, BoxTypes.UDTA) =>
                 grown(TypeAt(before, BoxTypes.UDTA))
           /\ HasIlst(before) => grown(TypeAt(before, BoxTypes.META))
           /\ PathNested(file)

\* what holds of the code: the same, for a moov box with a 32-bit size
C22_FollowUnderShortHeader ==
    (WroteTags /\ shape.moov_header = 8) => C22_AncestorSizesFollow

\* a moov box with a 64-bit size: the file grew by a udta box inserted at the
\* end of moov, and moov still ends where it did
C22_MoovLeftShort ==
    /\ WroteTags /\ shape.moov_header = 16 /\ Last.before = orig
    /\ shape.layout = "no udta"
    /\ Len(file) > Len(orig)
    /\ BoxEnd(file, TypeAt(file, BoxTypes.MOOV))
       = BoxEnd(orig, TypeAt(orig, BoxTypes.MOOV))
    /\ TypeAt(file, BoxTypes.UDTA) = BoxEnd(file, TypeAt(file, BoxTypes.MOOV))

\* the three rewrite cases with a 32-bit moov size: the file grew and the
\* boxes around the first ilst are nested
C22_WitnessNested ==
    /\ WroteTags /\ shape.moov_header = 8 /\ Last.before = orig
    /\ Len(file) > Len(orig)
    /\ PathNested(file)
    /\ be32(file, TypeAt(file, BoxTypes.MOOV))
       = be32(orig, TypeAt(orig, BoxTypes.MOOV)) + Len(file) - Len(orig)

(***************************************************************************)
(* The frame scanner's acceptance rule, stated on the bytes.               *)
(***************************************************************************)
\* a sync word at q: 0xFF, then a byte with its top three bits set
SyncAt(f, q) == q + 2 <= Len(f) /\ At(f, q) = 255 /\ At(f, q + 1) >= 224
\* the candidate at p: a header that parses, followed by a sync word or, with
\* fewer than two bytes left behind it, ending inside the buffer
Acceptable(f, p) ==
    /\ p + 4 <= Len(f)
    /\ parse_header(Slice(f, p, p + 4)).ok
    /\ LET next == p + parse_header(Slice(f, p, p + 4)).frame_size
       IN  SyncAt(f, next) \/ (next + 2 > Len(f) /\ next <= Len(f))
\* the frames are acceptable, each is the first acceptable candidate from
\* where the frame before it ended, and none follows the last
ScannedByRule(f, frames) ==
    LET resume(i) == IF i = 0 THEN skip_id3v2(f)
                     ELSE frames[i].pos + frames[i].header.frame_size
    IN  /\ \A i \in 1..Len(frames) :
              /\ frames[i].pos >= resume(i - 1)
              /\ Acceptable(f, frames[i].pos)
              /\ \A p \in resume(i - 1)..(frames[i].pos - 1) : ~Acceptable(f, p)
        /\ \A p \in resume(Len(frames))..(Len(f) - 4) : ~Acceptable(f, p)

\* C23: the scanner accepts a frame at pos of length L only if a sync word
\* stands at pos + L or, at the end of the buffer, pos + L is not beyond it;
\* a rejected candidate moves it on by one byte, an accepted one by L; and
\* apply_gain modifies the frames so accepted.
C23_AcceptanceRule ==
    /\ ScannedByRule(file, iterate_frames(file))
    /\ (Len(log) >= 1 /\ Last.op = "apply_gain" /\ Last.steps # 0) =>
          /\ ScannedByRule(Last.before, iterate_frames(Last.before))
          /\ Last.val = Len(iterate_frames(Last.before))

\* two frames and an ID3v1 tag after an ID3v2 header: the first frame is
\* accepted by the sync word of the second, the second is a candidate that is
\* rejected, and apply_gain modified one frame
C23_Witness ==
    /\ Len(log) >= 1 /\ Last.op = "apply_gain" /\ Last.steps = 2
    /\ shape.n = 2 /\ shape.id3v2 /\ shape.trailer = "id3v1"
    /\ Len(iterate_frames(Last.before)) = 1
    /\ LET first == iterate_frames(Last.before)[1]
       IN  /\ first.pos = skip_id3v2(Last.before) /\ first.pos > 0
           /\ SyncAt(Last.before, first.pos + first.header.frame_size)
           /\ parse_header(Slice(Last.before,
                                 first.pos + first.header.frame_size,
                                 first.pos + first.header.frame_size + 4)).ok
           /\ ~Acceptable(Last.before, first.pos + first.header.frame_size)
    /\ Last.val = 1

\* a loop is at work and goes on to another iteration of its own
Iterates ==
    /\ pc \in LoopKinds /\ pc' = pc
    /\ Len(mem'.stack) >= Len(mem.stack)
\* the position as the unsigned number it is
Unsigned(pos) == IF pos < 0 THEN TooBig + 1 ELSE pos

\* C26: on every input buffer, malformed ones included, every iteration of the
\* loops of the frame scanner, of read_ape_tag and of the MP4 box traversals
\* strictly advances the loop's position or exits the loop.
C26_EveryIterationAdvances ==
    [][Iterates => Unsigned(mem'.pos) > Unsigned(mem.pos)]_vars

\* it does in a build that checks arithmetic overflow, and in the loops that
\* add no 64-bit size to their position or slice the buffer by it
C26_AdvancesWithoutWrap ==
    [][(Iterates /\ (mem.checks
                     \/ pc \in {"iterate_frames", "read_ape_tag",
                                "create_ilst_box", "update_offsets_recursive"}))
         => Unsigned(mem'.pos) > Unsigned(mem.pos)]_vars

\* find_box is back at a position it has been at, over the same buffer
C26_FindBoxRevisits ==
    /\ pc = "find_box"
    /\ ~mem.checks
    /\ mem.pos \in mem.visited
    /\ file = <<0, 0, 0, 8>> \o <<102, 114, 101, 101>>
              \o <<0, 0, 0, 1>> \o <<102, 114, 101, 101>>
              \o <<255, 255, 255, 255, 255, 255, 255, 248>>

\* the file as it was built, without its trailing tags
Untagged == Slice(orig, 0, FramePos(shape, shape.n + 1))
FramePositions(data) ==
    {iterate_frames(data)[i].pos : i \in 1..Len(iterate_frames(data))}
WroteApeTag == log # <<>> /\ Last.op = "write_ape_tag"

\* C27: write_ape_tag does not change the frames the scanner accepts in a file
\* whose last frame ends at the end of the audio data: analyze reports the
\* same frame_count, min_gain and max_gain before and after, and a later
\* apply_gain modifies the frames that an apply_gain on the untagged file
\* modifies.
C27_TagKeepsFrames ==
    WroteApeTag =>
       LET same(before, after) ==
               /\ after.ok = before.ok
               /\ after.ok => /\ after.frame_count = before.frame_count
                              /\ after.min_gain = before.min_gain
                              /\ after.max_gain = before.max_gain
       IN  /\ same(analyze(Last.before), analyze(file))
           /\ FramePositions(file) = FramePositions(Untagged)
           /\ Slice(apply_gain(file, 2).data, 0, Len(Untagged))
              = apply_gain(Untagged, 2).data

\* a file of one frame and no tag: analyze reports the frame before
\* write_ape_tag and no frame after it, and apply_gain leaves the frame as it
\* is
C27_LastFrameLost ==
    /\ WroteApeTag
    /\ shape.trailer = "none" /\ Last.before = orig /\ orig = Untagged
    /\ analyze(orig).ok /\ analyze(orig).frame_count = 1
    /\ ~analyze(file).ok
    /\ apply_gain(file, 2).val = 0
    /\ Slice(apply_gain(file, 2).data, 0, Len(orig)) = orig
    /\ apply_gain(orig, 2).data # orig

\* the frames before the last are the same, whatever follows them
C27_EarlierFramesKept ==
    WroteApeTag =>
       /\ FramePositions(file) \subseteq FramePositions(Untagged)
       /\ FramePositions(Untagged) \ FramePositions(file)
          \subseteq {FramePos(shape, shape.n)}

\* bit i of the buffer, bit 0 the highest of the first byte
BitOf(d, i) == (At(d, i \div 8) \div (2 ^ (7 - (i % 8)))) % 2
\* where the field at a location begins, in bits
FieldStart(l) == 8 * l.byte_offset + l.bit_offset
\* bit i lies in a global_gain field of the frames
InGainField(frames, i) ==
    \E k \in 1..Len(frames) :
       \E c \in 1..Len(frames[k].locations) :
          /\ FieldStart(frames[k].locations[c]) <= i
          /\ i < FieldStart(frames[k].locations[c]) + 8
AppliedGain == log # <<>> /\ Last.op = "apply_gain"

ReadBack ==
    /\ Len(log) >= 2 /\ Last.op = "read_replaygain_tags"
    /\ log[Len(log) - 1].op = "write_replaygain_tags" /\ log[Len(log) - 1].ok

\* C29: read_replaygain_tags after write_replaygain_tags(f, t), t not empty,
\* returns t, for every file with a moov box and in each layout: ilst
\* present, udta without meta, meta without ilst, no udta.
C29_ReadReturnsWritten ==
    ReadBack => Last.result = log[Len(log) - 1].tags

\* it does where the new ilst lies in the first meta box of a udta box that
\* moov still holds
C29_ReadReturnsWrittenInMoov ==
    (ReadBack /\ shape.layout # "meta"
     /\ (shape.moov_header = 8 \/ shape.layout # "no udta"))
    => Last.result = log[Len(log) - 1].tags

\* the file had a meta box without ilst: the write has succeeded and no tag
\* is read
C29_NothingReadBack ==
    /\ ReadBack /\ Len(log) = 2
    /\ shape.layout = "meta" /\ shape.moov_header = 8
    /\ Last.result = ReplayGainTags_new

\* the file had an ilst with old ReplayGain items: the new ones are read, the
\* old album peak is gone
C29_ReadBackFromIlst ==
    /\ ReadBack /\ Len(log) = 2
    /\ shape.layout = "ilst with ReplayGain"
    /\ Last.result = log[1].tags
    /\ Last.result.album_peak = <<>>
    /\ read_replaygain_tags(orig).album_peak # <<>>

\* the same tags have been written twice in a row
WroteTwice ==
    /\ Len(log) >= 2
    /\ Last.op = "write_replaygain_tags" /\ Last.ok
    /\ log[Len(log) - 1].op = "write_replaygain_tags" /\ log[Len(log) - 1].ok
    /\ Last.tags = log[Len(log) - 1].tags

\* C30: writing the same tags a second time leaves the file byte for byte as
\* the first write left it, whatever layout the original file had.
C30_SecondWriteChangesNothing ==
    WroteTwice => file = Last.before

\* it does where the first write has left an ilst that the second one finds
C30_SecondWriteFindsIlst ==
    (WroteTwice /\ shape.layout # "meta"
     /\ (shape.moov_header = 8 \/ shape.layout # "no udta"))
    => file = Last.before

\* the file had a meta box without ilst: the second write has added a meta
\* box as the first did
C30_MetaAddedAgain ==
    /\ WroteTwice
    /\ shape.layout = "meta" /\ shape.moov_header = 8
    /\ Len(file) - Len(Last.before) = Len(Last.before) - Len(orig)
    /\ Len(file) > Len(Last.before)

\* the file had no udta box: the first write has added one with the four
\* items, the second has rewritten the ilst in it to the same bytes
C30_SecondWriteInPlace ==
    /\ WroteTwice
    /\ shape.layout = "no udta" /\ shape.moov_header = 8
    /\ shape.order = "moov first"
    /\ Last.tags.album_peak # <<>>
    /\ Len(Last.before) > Len(orig)
    /\ file = Last.before

====
